---- MODULE Spec2Model ----
(***************************************************************************)
(* Extraction Reconciliation Engine of daftar-harga-produk:                *)
(*   - parsePrice / normalizeText / cleanPrice   (Price Normalizer)        *)
(*   - similarityScore                           (Header Similarity)       *)
(*   - harmonizeColumnNames                      (Column Harmonizer)       *)
(*   - resolveName / resolveCost / resolveSrp    (Field Resolver)          *)
(*   - importAnalysis                            (Readiness Analyzer)      *)
(*   - the MappingModal session and handleMappingConfirm                   *)
(*                                                                         *)
(* A JavaScript string is a sequence of one-character strings.  A cell of  *)
(* a row is a tagged value: a finite number, a non-finite number, a string *)
(* or undefined (the key is absent).  A row is a sequence of key/value     *)
(* pairs with distinct keys, in the object's own key order.                *)
(***************************************************************************)
EXTENDS Integers, Sequences, FiniteSets, TLC

VARIABLES
  \* Price Normalizer harness
  pIn, pOut, pPc,
  \* Similarity Scorer harness
  sA, sB, sOut, sPc,
  \* Column Harmonizer harness
  hRows, hGroups, hOut, hOut2, hPc,
  \* MappingModal session (component state) and App.handleMappingConfirm
  data, keys, mapping, showOnlyUnresolved, quickFallbackColumn,
  quickFallbackTarget, pc, edits, alert, incomingItems,
  \* the write loop of App.handleMappingConfirm
  iTotal, iExisting, iNext, operationCount, batch, committed, iPc

priceVars == <<pIn, pOut, pPc>>
scoreVars == <<sA, sB, sOut, sPc>>
harmVars == <<hRows, hGroups, hOut, hOut2, hPc>>
sessionVars == <<data, keys, mapping, showOnlyUnresolved, quickFallbackColumn,
                 quickFallbackTarget, pc, edits, alert, incomingItems>>
importVars == <<iTotal, iExisting, iNext, operationCount, batch, committed, iPc>>
vars == <<priceVars, scoreVars, harmVars, sessionVars, importVars>>

----------------------------------------------------------------------------
(* Bounds *)

MaxStrLen == 3
MaxNum == 5
MaxHarmRows == 2
MaxHarmCells == 3
MaxEdits == 2
MaxItems == 901

----------------------------------------------------------------------------
(* Strings *)

UpperChars == <<"A","B","C","D","E","F","G","H","I","J","K","L","M",
                "N","O","P","Q","R","S","T","U","V","W","X","Y","Z">>
LowerChars == <<"a","b","c","d","e","f","g","h","i","j","k","l","m",
                "n","o","p","q","r","s","t","u","v","w","x","y","z">>
DigitChars == <<"0","1","2","3","4","5","6","7","8","9">>

\* the lower-case letter of every upper-case letter
LowerOfUpper ==
  [c \in { UpperChars[i] : i \in 1..26 } |->
     LowerChars[CHOOSE i \in 1..26 : UpperChars[i] = c]]

toLowerChar(c) == IF c \in DOMAIN LowerOfUpper THEN LowerOfUpper[c] ELSE c

toLowerCase(s) == [i \in 1..Len(s) |-> toLowerChar(s[i])]

\* the value of every ASCII digit
ValueOfDigit ==
  [c \in { DigitChars[i] : i \in 1..10 } |->
     (CHOOSE i \in 1..10 : DigitChars[i] = c) - 1]

IsDigit(c) == c \in DOMAIN ValueOfDigit
DigitVal(c) == ValueOfDigit[c]

IsSpace(c) == c = " "

\* String.prototype.trim
\* the place of the first character from i on that is no space, else Len(s) + 1
RECURSIVE FirstNonSpace(_, _)
FirstNonSpace(s, i) ==
  IF i > Len(s) THEN i
  ELSE IF IsSpace(s[i]) THEN FirstNonSpace(s, i + 1)
  ELSE i

\* the place of the last character up to i that is no space, else 0
RECURSIVE LastNonSpace(_, _)
LastNonSpace(s, i) ==
  IF i < 1 THEN i
  ELSE IF IsSpace(s[i]) THEN LastNonSpace(s, i - 1)
  ELSE i

trim(s) == SubSeq(s, FirstNonSpace(s, 1), LastNonSpace(s, Len(s)))

\* s.includes(pat): pat occurs in s as a contiguous substring
Includes(s, pat) ==
  \E i \in 1..(Len(s) - Len(pat) + 1) : SubSeq(s, i, i + Len(pat) - 1) = pat

\* str.replace(/[^0-9]/g, '')
RECURSIVE OnlyDigits(_)
OnlyDigits(s) ==
  IF s = <<>> THEN <<>>
  ELSE IF IsDigit(Head(s)) THEN <<Head(s)>> \o OnlyDigits(Tail(s))
  ELSE OnlyDigits(Tail(s))

\* the value of a run of decimal digits (parseInt(digits, 10) on a non-empty run)
RECURSIVE DigitsValue(_)
DigitsValue(d) ==
  IF d = <<>> THEN 0
  ELSE 10 * DigitsValue(SubSeq(d, 1, Len(d) - 1)) + DigitVal(d[Len(d)])

\* String(n) for a non-negative integer
RECURSIVE NatToString(_)
NatToString(n) ==
  IF n < 10 THEN <<DigitChars[n + 1]>>
  ELSE NatToString(n \div 10) \o <<DigitChars[(n % 10) + 1]>>

\* String(n) for an integer
IntToString(n) == IF n < 0 THEN <<"-">> \o NatToString(-n) ELSE NatToString(n)

----------------------------------------------------------------------------
(* Cells *)

Undefined == [t |-> "undef"]
NonFinite == [t |-> "nonfinite"]
Num(n) == [t |-> "num", n |-> n]
Str(s) == [t |-> "str", s |-> s]

\* String(val) for a defined cell
ToJsString(val) ==
  CASE val.t = "str" -> val.s
    [] val.t = "num" -> IntToString(val.n)
    [] val.t = "nonfinite" -> <<"N","a","N">>
    [] OTHER -> <<"u","n","d","e","f","i","n","e","d">>

\* /^(undefined|null|n\/a|na|-)$/i
PlaceholderTokens ==
  { <<"u","n","d","e","f","i","n","e","d">>, <<"n","u","l","l">>,
    <<"n","/","a">>, <<"n","a">>, <<"-">> }

IsPlaceholder(text) == Len(text) <= 9 /\ toLowerCase(text) \in PlaceholderTokens

\* the two tests of normalizeText on the trimmed text
TextOrEmpty(text) ==
  IF text = <<>> THEN <<>>
  ELSE IF IsPlaceholder(text) THEN <<>>
  ELSE text

normalizeText(val) ==
  IF val.t = "undef" THEN <<>>
  ELSE TextOrEmpty(trim(ToJsString(val)))

\* parseInt(digits, 10) || 0
ParseIntOrZero(digits) == IF digits = <<>> THEN 0 ELSE DigitsValue(digits)

\* mutant: parseInt on the text itself, which reads only a leading digit run
RECURSIVE LeadingDigits(_)
LeadingDigits(s) ==
  IF s = <<>> THEN <<>>
  ELSE IF ~IsDigit(Head(s)) THEN <<>>
  ELSE <<Head(s)>> \o LeadingDigits(Tail(s))

PriceOfText_LeadingDigits(str) ==
  IF str = <<>> THEN 0
  ELSE ParseIntOrZero(LeadingDigits(str))

\* parsePrice on the normalized text of a value that is not a number
PriceOfText(str) ==
  IF str = <<>> THEN 0
  ELSE ParseIntOrZero(OnlyDigits(str))

\* mutant: a number is written with two decimals and read back as text
parsePrice_ViaFixedText(val) ==
  IF val.t = "num" THEN PriceOfText(IntToString(val.n) \o <<".", "0", "0">>)
  ELSE IF val.t = "nonfinite" THEN 0
  ELSE PriceOfText(normalizeText(val))

parsePrice(val) ==
  IF val.t = "num" THEN val.n
  ELSE IF val.t = "nonfinite" THEN 0
  ELSE PriceOfText(normalizeText(val))

\* App.tsx cleanPrice: a number is returned as it is (no finiteness test),
\* anything else is stringified and reduced to its digits.  The result is a
\* JavaScript number, kept as a tagged cell so that a non-finite input stays
\* non-finite.
cleanPrice(val) ==
  IF val.t \in {"num", "nonfinite"} THEN val
  ELSE Num(ParseIntOrZero(OnlyDigits(ToJsString(val))))

----------------------------------------------------------------------------
(* Price Normalizer harness: one raw cell value, then both normalizers.   *)

PriceAlphabet == {"R", "p", " ", "1", "5", "0", ".", "-", "n", "/", "a"}

RECURSIVE StringsUpTo(_, _)
StringsUpTo(alphabet, n) ==
  IF n = 0 THEN { <<>> }
  ELSE LET shorter == StringsUpTo(alphabet, n - 1)
       IN shorter \cup { Append(s, c) : s \in { x \in shorter : Len(x) = n - 1 },
                                         c \in alphabet }

PriceExamples ==
  { <<"R","p"," ","1",".","5","0","0",".","0","0","0">>,
    <<"2","4",".","8","4","5">>, <<"N","/","A">>, <<"-","5">> }

RawCells ==
  { Str(s) : s \in StringsUpTo(PriceAlphabet, MaxStrLen) \cup PriceExamples }
    \cup { Num(n) : n \in (-MaxNum)..MaxNum } \cup { Num(1500000) }
    \cup { NonFinite, Undefined }

PriceIdle == pIn = Undefined /\ pOut = <<>> /\ pPc = "idle"

PriceInit == pIn \in RawCells /\ pOut = <<>> /\ pPc = "raw"

Normalize ==
  /\ pPc = "raw"
  /\ pOut' = [parsed |-> parsePrice(pIn), cleaned |-> cleanPrice(pIn)]
  /\ pPc' = "normalized"
  /\ UNCHANGED pIn

----------------------------------------------------------------------------
(* Header Similarity Scorer (geminiService.ts) *)

Pat_name ==
  { <<"p","r","o","d","u","c","t">>,
    <<"n","a","m","e">>,
    <<"d","e","s","c">>,
    <<"i","t","e","m">>,
    <<"t","i","t","l","e">>,
    <<"a","r","t","i","k","e","l">>,
    <<"p","r","o","d","u","k">> }

Pat_cost ==
  { <<"c","o","s","t">>,
    <<"d","e","a","l","e","r">>,
    <<"n","e","t">>,
    <<"w","h","o","l","e","s","a","l","e">>,
    <<"m","o","d","a","l">> }

Pat_srp ==
  { <<"s","r","p">>,
    <<"m","s","r","p">>,
    <<"r","e","t","a","i","l">>,
    <<"l","i","s","t">>,
    <<"s","u","g","g","e","s","t","e","d">>,
    <<"b","a","s","e">> }

Pat_price ==
  { <<"p","r","i","c","e">>,
    <<"h","a","r","g","a">>,
    <<"n","i","l","a","i">>,
    <<"r","a","t","e">> }

Pat_brand ==
  { <<"b","r","a","n","d">>,
    <<"m","e","r","k">>,
    <<"m","e","r","e","k">>,
    <<"s","u","p","p","l","i","e","r">>,
    <<"v","e","n","d","o","r">>,
    <<"p","a","b","r","i","k">> }

Pat_code ==
  { <<"c","o","d","e">>,
    <<"s","k","u">>,
    <<"i","d">>,
    <<"n","o","m","o","r">>,
    <<"n","o">>,
    <<"k","o","d","e">> }

Pat_qty ==
  { <<"q","t","y">>,
    <<"q","u","a","n","t","i","t","y">>,
    <<"j","u","m","l","a","h">>,
    <<"s","t","o","k">>,
    <<"s","t","o","c","k">> }


Categories == {"name", "cost", "srp", "price", "brand", "code", "qty"}

patterns(cat) ==
  CASE cat = "name" -> Pat_name
    [] cat = "cost" -> Pat_cost
    [] cat = "srp" -> Pat_srp
    [] cat = "price" -> Pat_price
    [] cat = "brand" -> Pat_brand
    [] cat = "code" -> Pat_code
    [] cat = "qty" -> Pat_qty

\* pat.test(a) for a case-insensitive alternation of literal substrings
RegexTest(alternatives, a) ==
  \E alt \in alternatives : Includes(toLowerCase(a), alt)

MatchedPatterns(a) == { cat \in Categories : RegexTest(patterns(cat), a) }

\* A score is the exact rational num/den of the floating-point result.
Score(n, d) == [num |-> n, den |-> d]
ScoreEq(x, y) == x.num * y.den = y.num * x.den
\* score >= 0.75
\* mutant: a score has to exceed 0.9 to count as the same column
AtLeastThreshold_AboveNineTenths(x) == 10 * x.num > 9 * x.den

AtLeastThreshold(x) == 4 * x.num >= 3 * x.den

Min(x, y) == IF x <= y THEN x ELSE y
Max(x, y) == IF x >= y THEN x ELSE y

PositionalMatches(aLower, bLower) ==
  Cardinality({ i \in 1..Min(Len(aLower), Len(bLower)) : aLower[i] = bLower[i] })

\* (aCost && bSrp) || (aSrp && bCost)
\* mutant: the anti-match rule tests one direction only
AntiMatch_OneWay(aCost, bCost, aSrp, bSrp) == aCost /\ bSrp

AntiMatch(aCost, bCost, aSrp, bSrp) == (aCost /\ bSrp) \/ (aSrp /\ bCost)

\* mutant: the shared-category test placed before the anti-match rule
similarityScore_OverlapFirst(a, b) ==
  LET aLower == toLowerCase(a)
      bLower == toLowerCase(b)
      overlap == Cardinality(MatchedPatterns(a) \cap MatchedPatterns(b))
  IN IF aLower = bLower THEN Score(1, 1)
     ELSE IF overlap > 0 THEN Score(9, 10)
     ELSE IF AntiMatch(RegexTest(Pat_cost, a), RegexTest(Pat_cost, b),
                       RegexTest(Pat_srp, a), RegexTest(Pat_srp, b)) THEN Score(1, 5)
     ELSE Score(PositionalMatches(aLower, bLower), Max(Len(aLower), Len(bLower)))

\* mutant: the anti-match rule placed before the test for equal headers
similarityScore_AntiMatchFirst(a, b) ==
  LET aLower == toLowerCase(a)
      bLower == toLowerCase(b)
      overlap == Cardinality(MatchedPatterns(a) \cap MatchedPatterns(b))
  IN IF AntiMatch(RegexTest(Pat_cost, a), RegexTest(Pat_cost, b),
                  RegexTest(Pat_srp, a), RegexTest(Pat_srp, b)) THEN Score(1, 5)
     ELSE IF aLower = bLower THEN Score(1, 1)
     ELSE IF overlap > 0 THEN Score(9, 10)
     ELSE Score(PositionalMatches(aLower, bLower), Max(Len(aLower), Len(bLower)))

\* mutant: no test for equal headers, two empty headers divide 0 by 0
similarityScore_NoEqualTest(a, b) ==
  LET aLower == toLowerCase(a)
      bLower == toLowerCase(b)
      overlap == Cardinality(MatchedPatterns(a) \cap MatchedPatterns(b))
  IN IF AntiMatch(RegexTest(Pat_cost, a), RegexTest(Pat_cost, b),
                  RegexTest(Pat_srp, a), RegexTest(Pat_srp, b)) THEN Score(1, 5)
     ELSE IF overlap > 0 THEN Score(9, 10)
     ELSE Score(PositionalMatches(aLower, bLower), Max(Len(aLower), Len(bLower)))

\* mutant: the count of equal positions is divided by the shorter length
similarityScore_OverShorter(a, b) ==
  LET aLower == toLowerCase(a)
      bLower == toLowerCase(b)
      overlap == Cardinality(MatchedPatterns(a) \cap MatchedPatterns(b))
  IN IF aLower = bLower THEN Score(1, 1)
     ELSE IF AntiMatch(RegexTest(Pat_cost, a), RegexTest(Pat_cost, b),
                       RegexTest(Pat_srp, a), RegexTest(Pat_srp, b)) THEN Score(1, 5)
     ELSE IF overlap > 0 THEN Score(9, 10)
     ELSE Score(PositionalMatches(aLower, bLower), Min(Len(aLower), Len(bLower)))

similarityScore(a, b) ==
  LET aLower == toLowerCase(a)
      bLower == toLowerCase(b)
      aPatterns == MatchedPatterns(a)
      bPatterns == MatchedPatterns(b)
      aCost == RegexTest(Pat_cost, a)
      bCost == RegexTest(Pat_cost, b)
      aSrp == RegexTest(Pat_srp, a)
      bSrp == RegexTest(Pat_srp, b)
      overlap == Cardinality(aPatterns \cap bPatterns)
  IN IF aLower = bLower THEN Score(1, 1)
     ELSE IF AntiMatch(aCost, bCost, aSrp, bSrp) THEN Score(1, 5)
     ELSE IF overlap > 0 THEN Score(9, 10)
     ELSE Score(PositionalMatches(aLower, bLower), Max(Len(aLower), Len(bLower)))

----------------------------------------------------------------------------
(* Header vocabulary *)

H_Price == <<"P","r","i","c","e">>
H_CostPrice == <<"C","o","s","t"," ","P","r","i","c","e">>
H_SrpPrice == <<"S","R","P"," ","P","r","i","c","e">>
H_DealerPrice == <<"D","e","a","l","e","r"," ","P","r","i","c","e">>
H_Net == <<"N","e","t">>
H_net == <<"n","e","t">>
H_costprice == <<"c","o","s","t"," ","p","r","i","c","e">>
H_Retail == <<"R","e","t","a","i","l">>
H_NetRetail == <<"N","e","t"," ","R","e","t","a","i","l">>
H_Desc == <<"D","e","s","c">>
H_Item == <<"I","t","e","m">>
H_Warna == <<"W","a","r","n","a">>
H_Warni == <<"W","a","r","n","i">>
H_Kode == <<"K","o","d","e">>
H_Harga == <<"H","a","r","g","a">>
H_SRP == <<"S","R","P">>
H_Kodo == <<"K","o","d","o">>
H_Empty == <<>>

ScoreVocab ==
  { H_Price, H_CostPrice, H_SrpPrice, H_DealerPrice, H_Net, H_net, H_Retail,
    H_NetRetail, H_costprice, H_Desc, H_Item, H_Warna, H_Warni, H_Kode, H_Harga, H_SRP,
    H_Kodo, H_Empty }

\* similarityScore over the vocabulary, evaluated once and looked up by the
\* harmonizer's loop (its keys are headers of the vocabulary)
ScoreTable == [p \in ScoreVocab \X ScoreVocab |-> similarityScore(p[1], p[2])]
ScoreOf(a, b) == ScoreTable[<<a, b>>]

----------------------------------------------------------------------------
(* Similarity Scorer harness: a pair of headers, then the score.          *)

ScoreIdle == sA = <<>> /\ sB = <<>> /\ sOut = Score(0, 1) /\ sPc = "idle"

ScoreInit ==
  sA \in ScoreVocab /\ sB \in ScoreVocab /\ sOut = Score(0, 1) /\ sPc = "pair"

ScorePair ==
  /\ sPc = "pair"
  /\ sOut' = similarityScore(sA, sB)
  /\ sPc' = "scored"
  /\ UNCHANGED <<sA, sB>>


----------------------------------------------------------------------------
(* Rows *)

Range(f) == { f[i] : i \in DOMAIN f }

ObjectKeys(row) == [i \in 1..Len(row) |-> row[i].k]

hasOwnProperty(row, key) == \E i \in 1..Len(row) : row[i].k = key

\* row[key]: the value under key, undefined when the row has no such key
Cell(row, key) ==
  IF hasOwnProperty(row, key)
    THEN row[CHOOSE i \in 1..Len(row) : row[i].k = key].v
    ELSE Undefined

\* the row as a mapping from its keys to their values, key order forgotten
AsMap(row) == [key \in Range(ObjectKeys(row)) |-> Cell(row, key)]

\* Array.from(new Set(list)): first occurrences, in order
RECURSIVE Dedup(_)
Dedup(list) ==
  IF list = <<>> THEN <<>>
  ELSE LET init == Dedup(SubSeq(list, 1, Len(list) - 1))
           last == list[Len(list)]
       IN IF last \in Range(init) THEN init ELSE Append(init, last)

\* rows.flatMap(r => Object.keys(r))
RECURSIVE FlatKeys(_)
FlatKeys(rows) ==
  IF rows = <<>> THEN <<>>
  ELSE ObjectKeys(Head(rows)) \o FlatKeys(Tail(rows))

AllKeys(rows) == Dedup(FlatKeys(rows))

----------------------------------------------------------------------------
(* Column Harmonizer (geminiService.ts) *)

\* the inner loop: every key not yet assigned whose score against the
\* canonical key reaches the threshold, in allKeys order
\* mutant: the inner loop does not skip the keys already assigned
GroupMembers_NoAssignedCheck(key, allKeys, assigned) ==
  LET Joins(otherKey) == AtLeastThreshold(ScoreOf(key, otherKey))
  IN <<key>> \o SelectSeq(allKeys, Joins)

\* mutant: the inner loop stops at the first key it adds
GroupMembers_BreakAfterFirst(key, allKeys, assigned) ==
  LET Joins(otherKey) ==
        /\ otherKey \notin assigned
        /\ AtLeastThreshold(ScoreOf(key, otherKey))
      all == SelectSeq(allKeys, Joins)
  IN <<key>> \o SubSeq(all, 1, Min(1, Len(all)))

\* mutant: a key joins the group when it scores against any member so far
RECURSIVE JoinAny(_, _, _, _)
JoinAny(group, allKeys, i, assigned) ==
  IF i > Len(allKeys) THEN group
  ELSE IF /\ allKeys[i] \notin assigned
          /\ \E j \in 1..Len(group) : AtLeastThreshold(ScoreOf(group[j], allKeys[i]))
    THEN JoinAny(Append(group, allKeys[i]), allKeys, i + 1, assigned \cup {allKeys[i]})
  ELSE JoinAny(group, allKeys, i + 1, assigned)

GroupMembers_Transitive(key, allKeys, assigned) == JoinAny(<<key>>, allKeys, 1, assigned)

GroupMembers(key, allKeys, assigned) ==
  LET Joins(otherKey) ==
        /\ otherKey \notin assigned
        /\ AtLeastThreshold(ScoreOf(key, otherKey))
  IN <<key>> \o SelectSeq(allKeys, Joins)

\* the outer loop from position i on; groups is the Map in insertion order
RECURSIVE BuildGroups(_, _, _, _)
BuildGroups(allKeys, i, assigned, groups) ==
  IF i > Len(allKeys) THEN groups
  ELSE LET key == allKeys[i]
       IN IF key \in assigned
            THEN BuildGroups(allKeys, i + 1, assigned, groups)
            ELSE LET group == GroupMembers(key, allKeys, assigned \cup {key})
                 IN BuildGroups(allKeys, i + 1, assigned \cup Range(group),
                                Append(groups, [canonical |-> key, variants |-> group]))

HeaderGroups(rows) == BuildGroups(AllKeys(rows), 1, {}, <<>>)

\* the first variant of the group that is an own key of the row, 0 when none
\* mutant: the loop over the variants has no break, the last variant present wins
FirstVariant_NoBreak(row, variants) ==
  IF \E j \in 1..Len(variants) : hasOwnProperty(row, variants[j])
    THEN CHOOSE j \in 1..Len(variants) :
           /\ hasOwnProperty(row, variants[j])
           /\ \A h \in (j + 1)..Len(variants) : ~hasOwnProperty(row, variants[h])
    ELSE 0

FirstVariant(row, variants) ==
  IF \E j \in 1..Len(variants) : hasOwnProperty(row, variants[j])
    THEN CHOOSE j \in 1..Len(variants) :
           /\ hasOwnProperty(row, variants[j])
           /\ \A h \in 1..(j - 1) : ~hasOwnProperty(row, variants[h])
    ELSE 0

\* one row rewritten onto the canonical keys, in group order
RECURSIVE NormalizeRow(_, _, _)
NormalizeRow(row, groups, g) ==
  IF g > Len(groups) THEN <<>>
  ELSE LET j == FirstVariant(row, groups[g].variants)
           rest == NormalizeRow(row, groups, g + 1)
       IN IF j = 0 THEN rest
          ELSE <<[k |-> groups[g].canonical,
                  v |-> Cell(row, groups[g].variants[j])]>> \o rest

harmonizeColumnNames(rows) ==
  IF Len(rows) = 0 THEN rows
  ELSE IF Len(AllKeys(rows)) = 0 THEN rows
  ELSE LET groups == HeaderGroups(rows)
       IN [r \in 1..Len(rows) |-> NormalizeRow(rows[r], groups, 1)]

----------------------------------------------------------------------------
(* Column Harmonizer harness: a batch, harmonized, then harmonized again.  *)
(* The harmonizer never reads a value, so each cell carries a value that   *)
(* names its place (10 * row + column) and shows where a copy came from.   *)

HarmKeys == { H_Price, H_CostPrice, H_costprice, H_SrpPrice, H_Warna, H_Warni }

\* the key sequences, without repetition, of at most n keys
RECURSIVE KeyLists(_, _)
KeyLists(keySet, n) ==
  IF n = 0 THEN { <<>> }
  ELSE LET shorter == KeyLists(keySet, n - 1)
       IN shorter \cup
          UNION { { Append(s, key) : key \in keySet \ Range(s) } :
                    s \in { x \in shorter : Len(x) = n - 1 } }

\* the batches of at most r rows and at most c cells, as key layouts
RECURSIVE Layouts(_, _, _)
Layouts(keySet, r, c) ==
  IF r = 0 THEN { <<>> }
  ELSE { <<>> } \cup
       UNION { { <<first>> \o rest : rest \in Layouts(keySet, r - 1, c - Len(first)) } :
                 first \in KeyLists(keySet, c) }

Tagged(layout) ==
  [r \in 1..Len(layout) |->
     [c \in 1..Len(layout[r]) |-> [k |-> layout[r][c], v |-> Num(10 * r + c)]]]

HarmBatches == { Tagged(l) : l \in Layouts(HarmKeys, MaxHarmRows, MaxHarmCells) }

HarmIdle ==
  hRows = <<>> /\ hGroups = <<>> /\ hOut = <<>> /\ hOut2 = <<>> /\ hPc = "idle"

HarmInit ==
  hRows \in HarmBatches /\ hGroups = <<>> /\ hOut = <<>> /\ hOut2 = <<>> /\ hPc = "raw"

Harmonize ==
  /\ hPc = "raw"
  /\ hGroups' = HeaderGroups(hRows)
  /\ hOut' = harmonizeColumnNames(hRows)
  /\ hPc' = "once"
  /\ UNCHANGED <<hRows, hOut2>>

HarmonizeAgain ==
  /\ hPc = "once"
  /\ hOut2' = harmonizeColumnNames(hOut)
  /\ hPc' = "twice"
  /\ UNCHANGED <<hRows, hGroups, hOut>>

----------------------------------------------------------------------------
(* Idle values of the session variables, for the harness specifications   *)

SessionIdle ==
  /\ data = <<>> /\ keys = <<>> /\ mapping = <<>>
  /\ showOnlyUnresolved = TRUE
  /\ quickFallbackColumn = <<>> /\ quickFallbackTarget = "name"
  /\ pc = "idle" /\ edits = 0 /\ alert = "none" /\ incomingItems = <<>>

\* the write loop before handleMappingConfirm is called
ImportIdle ==
  /\ iTotal = 0 /\ iExisting = {} /\ iNext = 1 /\ operationCount = 0
  /\ batch = <<>> /\ committed = <<>> /\ iPc = "idle"

----------------------------------------------------------------------------
(* Specifications of the three pure components *)

PriceNext == Normalize /\ UNCHANGED <<scoreVars, harmVars, sessionVars, importVars>>
InitPrice == PriceInit /\ ScoreIdle /\ HarmIdle /\ SessionIdle /\ ImportIdle
SpecPrice == InitPrice /\ [][PriceNext]_vars

ScoreNext == ScorePair /\ UNCHANGED <<priceVars, harmVars, sessionVars, importVars>>
InitScore == ScoreInit /\ PriceIdle /\ HarmIdle /\ SessionIdle /\ ImportIdle
SpecScore == InitScore /\ [][ScoreNext]_vars

HarmNext ==
  \/ Harmonize /\ UNCHANGED <<priceVars, scoreVars, sessionVars, importVars>>
  \/ HarmonizeAgain /\ UNCHANGED <<priceVars, scoreVars, sessionVars, importVars>>
InitHarm == HarmInit /\ PriceIdle /\ ScoreIdle /\ SessionIdle /\ ImportIdle
SpecHarm == InitHarm /\ [][HarmNext]_vars

----------------------------------------------------------------------------
(* Claims on the pure components *)

IsCostHeader(h) == RegexTest(Pat_cost, h)
IsSrpHeader(h) == RegexTest(Pat_srp, h)

\* C3: no group built by harmonizeColumnNames holds both a header matching
\* the cost category and a header matching the srp category.
C3_NoCostSrpGroup ==
  hPc # "raw" =>
    \A g \in 1..Len(hGroups) :
      ~ \E x, y \in Range(hGroups[g].variants) : IsCostHeader(x) /\ IsSrpHeader(y)

\* C4: the Price Normalizer returns a non-negative integer for every raw
\* cell value, numeric or string.
C4_NormalizerNonNegative ==
  pPc = "normalized" => pOut.parsed \in Nat

\* C6: for two headers that are not case-insensitively equal, one matching
\* the cost category and the other the srp category (either direction),
\* similarityScore returns 0.2; score("Cost Price", "SRP Price") = 0.2.
C6_AntiMatchScore ==
  /\ ( /\ sPc = "scored"
       /\ toLowerCase(sA) # toLowerCase(sB)
       /\ \/ IsCostHeader(sA) /\ IsSrpHeader(sB)
          \/ IsSrpHeader(sA) /\ IsCostHeader(sB) )
     => ScoreEq(sOut, Score(1, 5))
  /\ (sPc = "scored" /\ sA = H_CostPrice /\ sB = H_SrpPrice)
     => ScoreEq(sOut, Score(1, 5))

C6_Witness ==
  /\ sPc = "scored" /\ sA = H_SrpPrice /\ sB = H_DealerPrice
  /\ "price" \in MatchedPatterns(sA) \cap MatchedPatterns(sB)
  /\ sOut = Score(1, 5)

\* the number of places (group, position) at which key is a variant
Occurrences(groups, key) ==
  Cardinality({ p \in UNION { { <<g, j>> : j \in 1..Len(groups[g].variants) } :
                                g \in 1..Len(groups) } :
                  groups[p[1]].variants[p[2]] = key })

\* C7: the groups are a partition of the batch's header keys: every key of
\* any row is in exactly one group, once, and every variant is such a key.
C7_GroupsPartition ==
  hPc # "raw" =>
    /\ \A key \in Range(FlatKeys(hRows)) : Occurrences(hGroups, key) = 1
    /\ \A g \in 1..Len(hGroups) :
         Range(hGroups[g].variants) \subseteq Range(FlatKeys(hRows))

C7_Witness ==
  /\ hPc = "once" /\ Len(hGroups) = 2
  /\ Len(hGroups[1].variants) = 2
  /\ Len(hRows) = 2

\* C8: harmonize(harmonize(rows)) equals harmonize(rows), row by row.
C8_HarmonizeIdempotent ==
  hPc = "twice" =>
    /\ Len(hOut2) = Len(hOut)
    /\ \A r \in 1..Len(hOut) : hOut2[r] = hOut[r]

C8_Witness ==
  /\ hPc = "twice" /\ Len(hOut) = 2
  /\ ObjectKeys(hOut[1]) # ObjectKeys(hRows[1])
  /\ Len(hGroups) = 2
  /\ hOut2 = hOut

----------------------------------------------------------------------------
(* Field Resolver (MappingModal.tsx) *)

\* Boolean(s) for a string
Truthy(s) == s # <<>>

\* mapping.manualRetagByRow?.[rowIndex]?.[field]
ManualField(m, rowIndex, field) ==
  IF rowIndex \in DOMAIN m.manualRetagByRow
    THEN m.manualRetagByRow[rowIndex][field]
    ELSE Undefined

\* (price || 0) for an optional number
NumberOrZero(val) == IF val.t = "num" THEN val.n ELSE 0

\* for (const key of candidates) { value = normalizeText(row[key]); if (value) return value } return ''
RECURSIVE FirstText(_, _)
TextOrNext(value, row, rest) ==
  IF Truthy(value) THEN value ELSE FirstText(row, rest)
FirstText(row, candidates) ==
  IF candidates = <<>> THEN <<>>
  ELSE TextOrNext(normalizeText(Cell(row, Head(candidates))), row, Tail(candidates))

\* for (const key of candidates) { value = parsePrice(row[key]); if (value > 0) return value } return 0
RECURSIVE FirstPrice(_, _)
\* mutant: a price counts as found when it is not 0
PriceOrNext_NonZero(value, row, rest) ==
  IF value # 0 THEN value ELSE FirstPrice(row, rest)

PriceOrNext(value, row, rest) ==
  IF value > 0 THEN value ELSE FirstPrice(row, rest)
FirstPrice(row, candidates) ==
  IF candidates = <<>> THEN 0
  ELSE PriceOrNext(parsePrice(Cell(row, Head(candidates))), row, Tail(candidates))

\* [primary, ...fallbacks].filter(Boolean)
Candidates(primary, fallbacks) == SelectSeq(<<primary>> \o fallbacks, Truthy)

\* if (manualName) return manualName; else the candidate columns in order
ManualOrText(manualName, row, candidates) ==
  IF Truthy(manualName) THEN manualName ELSE FirstText(row, candidates)

\* mutant: the mapped columns are read before the manual override
ColumnsOrManual(found, manualName) == IF Truthy(found) THEN found ELSE manualName
resolveName_ColumnsFirst(row, rowIndex, m) ==
  ColumnsOrManual(FirstText(row, Candidates(m.nameField, m.nameFallbackFields)),
                  normalizeText(ManualField(m, rowIndex, "name")))

resolveName(row, rowIndex, m) ==
  ManualOrText(normalizeText(ManualField(m, rowIndex, "name")), row,
               Candidates(m.nameField, m.nameFallbackFields))

resolveCost(row, rowIndex, m) ==
  IF NumberOrZero(ManualField(m, rowIndex, "costPrice")) > 0
    THEN NumberOrZero(ManualField(m, rowIndex, "costPrice"))
  ELSE FirstPrice(row, Candidates(m.costField, m.costFallbackFields))

\* mutant: the test for a missing srpField placed before the manual override
resolveSrp_FieldTestFirst(row, rowIndex, m) ==
  IF ~Truthy(m.srpField) THEN 0
  ELSE IF NumberOrZero(ManualField(m, rowIndex, "srpPrice")) > 0
    THEN NumberOrZero(ManualField(m, rowIndex, "srpPrice"))
  ELSE FirstPrice(row, Candidates(m.srpField, m.srpFallbackFields))

\* mutant: without a srpField the fallback columns are still read
resolveSrp_NoFieldTest(row, rowIndex, m) ==
  IF NumberOrZero(ManualField(m, rowIndex, "srpPrice")) > 0
    THEN NumberOrZero(ManualField(m, rowIndex, "srpPrice"))
  ELSE FirstPrice(row, Candidates(m.srpField, m.srpFallbackFields))

resolveSrp(row, rowIndex, m) ==
  IF NumberOrZero(ManualField(m, rowIndex, "srpPrice")) > 0
    THEN NumberOrZero(ManualField(m, rowIndex, "srpPrice"))
  ELSE IF ~Truthy(m.srpField) THEN 0
  ELSE FirstPrice(row, Candidates(m.srpField, m.srpFallbackFields))

----------------------------------------------------------------------------
(* Readiness Analyzer (MappingModal.tsx) *)

getPopulatedColumns(row) ==
  LET Populated(key) == Truthy(normalizeText(Cell(row, key)))
  IN SelectSeq(ObjectKeys(row), Populated)

\* mutant: the missing name is tested before the missing name and cost
getUnresolvedReason_NameFirst(name, cost) ==
  IF ~Truthy(name) THEN "Missing Product Name"
  ELSE IF ~Truthy(name) /\ cost <= 0 THEN "Missing Product Name and Cost Price"
  ELSE "Missing Cost Price"

getUnresolvedReason(name, cost) ==
  IF ~Truthy(name) /\ cost <= 0 THEN "Missing Product Name and Cost Price"
  ELSE IF ~Truthy(name) THEN "Missing Product Name"
  ELSE "Missing Cost Price"

\* the body of data.forEach((row, index) => ...): the entry pushed to rows
RowEntry(row, index, currentName, currentCost, hasName, hasCost) ==
  [index |-> index, row |-> row,
   currentName |-> currentName, currentCost |-> currentCost,
   isResolved |-> hasName /\ hasCost,
   reason |-> getUnresolvedReason(currentName, currentCost),
   hasName |-> hasName, hasCost |-> hasCost,
   populatedColumns |-> getPopulatedColumns(row)]

Classify(row, index, currentName, currentCost) ==
  RowEntry(row, index, currentName, currentCost, Truthy(currentName), currentCost > 0)

AnalyzeRow(row, index, m) ==
  Classify(row, index, resolveName(row, index, m), resolveCost(row, index, m))

\* the entry pushed to unresolved: the same without isResolved
UnresolvedEntry(e) ==
  [index |-> e.index, row |-> e.row,
   currentName |-> e.currentName, currentCost |-> e.currentCost,
   reason |-> e.reason, hasName |-> e.hasName, hasCost |-> e.hasCost,
   populatedColumns |-> e.populatedColumns]

\* mutant: a row is listed as unresolved only when its name is missing
AnalysisStep_NameOnly(acc, e) ==
  IF e.isResolved
    THEN [acc EXCEPT !.ready = @ + 1, !.rows = Append(@, e)]
    ELSE IF ~e.hasName
      THEN [acc EXCEPT !.unresolved = Append(@, UnresolvedEntry(e)),
                       !.rows = Append(@, e)]
      ELSE [acc EXCEPT !.rows = Append(@, e)]

\* one turn of the forEach loop
AnalysisStep(acc, e) ==
  IF e.isResolved
    THEN [acc EXCEPT !.ready = @ + 1, !.rows = Append(@, e)]
    ELSE [acc EXCEPT !.unresolved = Append(@, UnresolvedEntry(e)),
                     !.rows = Append(@, e)]

RECURSIVE AnalysisLoop(_, _, _, _)
AnalysisLoop(d, m, i, acc) ==
  IF i > Len(d) THEN acc
  ELSE AnalysisLoop(d, m, i + 1, AnalysisStep(acc, AnalyzeRow(d[i], i - 1, m)))

AnalysisResult(total, acc) ==
  [total |-> total, ready |-> acc.ready,
   unresolved |-> acc.unresolved, rows |-> acc.rows]

importAnalysis(d, m) ==
  AnalysisResult(Len(d),
    AnalysisLoop(d, m, 1, [ready |-> 0, unresolved |-> <<>>, rows |-> <<>>]))

\* rowsForRetag: the rows listed in the retag table
RetagList(analysis, onlyUnresolved) ==
  IF onlyUnresolved THEN analysis.unresolved
  ELSE [i \in 1..Len(analysis.rows) |-> UnresolvedEntry(analysis.rows[i])]

rowsForRetag(d, m, onlyUnresolved) == RetagList(importAnalysis(d, m), onlyUnresolved)

EligibleCount(unresolved, column, target) ==
  Cardinality({ i \in 1..Len(unresolved) :
    IF target = "name"
      THEN Truthy(normalizeText(Cell(unresolved[i].row, column)))
      ELSE parsePrice(Cell(unresolved[i].row, column)) > 0 })

getQuickFallbackEligibleCount(d, m, column, target) ==
  IF ~Truthy(column) THEN 0
  ELSE EligibleCount(importAnalysis(d, m).unresolved, column, target)

----------------------------------------------------------------------------
(* Import transform of handleMappingConfirm (App.tsx) *)

GuessName ==
  { <<"d","e","s","c">>, <<"n","a","m","e">>, <<"p","r","o","d","u","c","t">>,
    <<"i","t","e","m">>, <<"m","o","d","e","l">> }

GuessCost ==
  { <<"p","r","i","c","e">>, <<"c","o","s","t">>, <<"d","e","a","l","e","r">>,
    <<"n","e","t">>, <<"w","h","o","l","e","s","a","l","e">> }

GuessSrpLiteral ==
  { <<"s","r","p">>, <<"r","e","t","a","i","l">>, <<"s","e","l","l">> }

ImportSrpPattern ==
  { <<"p","r","i","c","e">>, <<"r","e","t","a","i","l">>, <<"s","e","l","l">>,
    <<"s","r","p">> }

W_suggested == <<"s","u","g","g","e","s","t","e","d">>
W_base == <<"b","a","s","e">>
W_price == <<"p","r","i","c","e">>

\* the last resort of getBestValue: the first key of the row that matches the
\* pattern and holds text
PatternValue(item, hits) ==
  IF hits = <<>> THEN <<>> ELSE normalizeText(Cell(item, Head(hits)))

PatternHits(item, fallbackPattern) ==
  LET Matches(key) == /\ RegexTest(fallbackPattern, key)
                      /\ Truthy(normalizeText(Cell(item, key)))
  IN SelectSeq(ObjectKeys(item), Matches)

FallbackOrPattern(fromFallbacks, item, fallbackPattern) ==
  IF Truthy(fromFallbacks) THEN fromFallbacks
  ELSE PatternValue(item, PatternHits(item, fallbackPattern))

PreferredOrRest(preferred, item, fallbackKeys, fallbackPattern) ==
  IF Truthy(preferred) THEN preferred
  ELSE FallbackOrPattern(FirstText(item, fallbackKeys), item, fallbackPattern)

getBestValue(item, preferredKey, fallbackKeys, fallbackPattern) ==
  PreferredOrRest(normalizeText(Cell(item, preferredKey)), item, fallbackKeys,
                  fallbackPattern)

toUpperChar(c) ==
  IF \E i \in 1..26 : LowerChars[i] = c
    THEN UpperChars[CHOOSE i \in 1..26 : LowerChars[i] = c]
    ELSE c

\* s.replace(/\s+/g, ' ')
RECURSIVE CollapseSpaces(_)
CollapseSpaces(s) ==
  IF Len(s) < 2 THEN s
  ELSE IF IsSpace(s[1]) /\ IsSpace(s[2]) THEN CollapseSpaces(Tail(s))
  ELSE <<s[1]>> \o CollapseSpaces(Tail(s))

toUpperCase(s) == [i \in 1..Len(s) |-> toUpperChar(s[i])]

UpperOrUnknown(compacted) ==
  IF Truthy(compacted) THEN toUpperCase(compacted)
  ELSE <<"U","N","K","N","O","W","N">>

formatBrandName(value) == UpperOrUnknown(CollapseSpaces(trim(value)))

\* manualRetag?.costPrice && manualRetag.costPrice > 0 ? manualRetag.costPrice : 0
ManualPrice(m, index, field) ==
  IF NumberOrZero(ManualField(m, index, field)) > 0
    THEN NumberOrZero(ManualField(m, index, field)) ELSE 0

\* manual > 0 ? manual : cleanPrice(raw), raw being the text getBestValue found
ManualOrClean(manual, raw) == IF manual > 0 THEN manual ELSE cleanPrice(Str(raw)).n

ImportName(manualName, item, m) ==
  IF Truthy(manualName) THEN manualName
  ELSE getBestValue(item, m.nameField, m.nameFallbackFields, GuessName)

ImportSrpRaw(item, m) ==
  IF Truthy(m.srpField)
    THEN getBestValue(item, m.srpField, m.srpFallbackFields, ImportSrpPattern)
    ELSE <<"0">>

\* the record built by extractedData.map((item, index) => ...)
ImportItem(item, index, m) ==
  [name |-> ImportName(normalizeText(ManualField(m, index, "name")), item, m),
   costPrice |-> ManualOrClean(ManualPrice(m, index, "costPrice"),
                   getBestValue(item, m.costField, m.costFallbackFields, GuessCost)),
   srpPrice |-> ManualOrClean(ManualPrice(m, index, "srpPrice"), ImportSrpRaw(item, m)),
   brand |-> formatBrandName(m.brandName),
   rawJson |-> item]

\* incomingItems: .map(...).filter(p => p.name && p.costPrice > 0)
IncomingItems(extractedData, m) ==
  LET Ready(p) == Truthy(p.name) /\ p.costPrice > 0
  IN SelectSeq([i \in 1..Len(extractedData) |->
                  ImportItem(extractedData[i], i - 1, m)], Ready)

----------------------------------------------------------------------------
(* MappingModal session *)

T_SonyA7C == <<"S","o","n","y"," ","A","7","C">>
T_Lens == <<"L","e","n","s">>
T_Cam == <<"C","a","m">>
T_UnknownItem == <<"U","n","k","n","o","w","n"," ","I","t","e","m">>
T_24845 == <<"2","4",".","8","4","5">>
T_91199 == <<"9","1",".","1","9","9">>
T_1500 == <<"1",".","5","0","0">>
T_na == <<"n","/","a">>
T_abc == <<"a","b","c">>
T_100 == <<"1","0","0">>
T_dash == <<"-">>
B_spaced == <<" ","s","o"," "," ","n","y"," ">>

Pair(key, val) == [k |-> key, v |-> val]

\* Extracted rows as the mapping dialog receives them
Row_SonyA7C == <<Pair(H_Desc, Str(T_SonyA7C)), Pair(H_Net, Str(T_24845))>>
Row_NoName == <<Pair(H_Desc, Str(<<>>)), Pair(H_Net, Str(T_91199))>>
Row_ItemOnly ==
  <<Pair(H_Desc, Str(T_dash)), Pair(H_Item, Str(T_Lens)), Pair(H_Net, Num(7)),
    Pair(H_SRP, Str(T_100))>>
Row_CostInHarga ==
  <<Pair(H_Desc, Str(T_Cam)), Pair(H_Item, Str(T_Lens)), Pair(H_Net, Str(T_na)),
    Pair(H_Harga, Str(T_1500))>>
Row_NegativeNet ==
  <<Pair(H_Desc, Str(T_Cam)), Pair(H_Net, Num(-5)), Pair(H_Harga, Str(T_abc))>>
Row_JunkNet ==
  <<Pair(H_Item, Str(T_Lens)), Pair(H_Net, Str(T_abc)), Pair(H_Harga, Num(0)),
    Pair(H_Price, Str(T_1500))>>

\* garbled rows: no key at all; a column with an empty header and a number
\* beyond a double
Row_NoKeys == <<>>
Row_Garbled ==
  <<Pair(H_Empty, Str(T_abc)), Pair(H_Desc, Str(T_Cam)), Pair(H_Net, NonFinite)>>

\* a price list that gives the suggested retail price only
Row_SrpPriceOnly == <<Pair(H_Desc, Str(T_Cam)), Pair(H_SrpPrice, Str(T_1500))>>

\* handleExtractionComplete is only called with a batch that has rows
SessionBatches ==
  { <<Row_SonyA7C, Row_NoName>>,
    <<Row_ItemOnly, Row_CostInHarga>>,
    <<Row_CostInHarga, Row_NegativeNet>>,
    <<Row_NegativeNet, Row_JunkNet>>,
    <<Row_NoName, Row_ItemOnly>>,
    <<Row_JunkNet, Row_SonyA7C>>,
    <<Row_SonyA7C>>,
    <<Row_CostInHarga>>,
    <<Row_NoName, Row_CostInHarga, Row_JunkNet>>,
    <<Row_NoKeys, Row_Garbled>>,
    <<Row_SrpPriceOnly>> }

Brands == { <<>>, <<" ">>, B_spaced }
RetagNames == { <<>>, T_UnknownItem, T_na }
RetagPrices == { 0, 3, -5 }

EmptyRetag == [name |-> Undefined, costPrice |-> Undefined, srpPrice |-> Undefined]

\* useState defaults; an unset srpField (undefined) is the empty string, which
\* every reader treats alike, and an unset srpFallbackFields is the empty list
InitialMapping ==
  [nameField |-> <<>>, costField |-> <<>>, srpField |-> <<>>, brandName |-> <<>>,
   nameFallbackFields |-> <<>>, costFallbackFields |-> <<>>,
   srpFallbackFields |-> <<>>, manualRetagByRow |-> <<>>]

SessionInit ==
  /\ data \in SessionBatches
  /\ keys = <<>>
  /\ mapping = InitialMapping
  /\ showOnlyUnresolved = TRUE
  /\ quickFallbackColumn = <<>>
  /\ quickFallbackTarget = "name"
  /\ pc = "mount"
  /\ edits = 0
  /\ alert = "none"
  /\ incomingItems = <<>>

\* /srp|retail|sell|suggested.*price|base.*price/i
IncludesThen(s, first, second) ==
  \E i \in 1..Len(s) : \E j \in 1..Len(s) :
    /\ i + Len(first) <= j
    /\ j + Len(second) - 1 <= Len(s)
    /\ SubSeq(s, i, i + Len(first) - 1) = first
    /\ SubSeq(s, j, j + Len(second) - 1) = second

GuessSrpTest(key) ==
  \/ RegexTest(GuessSrpLiteral, key)
  \/ IncludesThen(toLowerCase(key), W_suggested, W_price)
  \/ IncludesThen(toLowerCase(key), W_base, W_price)

\* the useEffect on [data]: the key list and the guessed columns
AutoGuess ==
  /\ pc = "mount"
  /\ pc' = "mapping"
  /\ IF Len(data) > 0
       THEN LET allKeys == AllKeys(data)
                IsName(key) == RegexTest(GuessName, key)
                IsCost(key) == RegexTest(GuessCost, key)
                nameKeys == SelectSeq(allKeys, IsName)
                costKeys == SelectSeq(allKeys, IsCost)
                srpKeys == SelectSeq(allKeys, GuessSrpTest)
            IN /\ keys' = allKeys
               /\ mapping' =
                    [mapping EXCEPT
                       !.nameField = IF nameKeys # <<>> THEN Head(nameKeys) ELSE @,
                       !.costField = IF costKeys # <<>> THEN Head(costKeys) ELSE @,
                       !.srpField = IF srpKeys # <<>> THEN Head(srpKeys) ELSE @]
       ELSE UNCHANGED <<keys, mapping>>
  /\ UNCHANGED <<data, showOnlyUnresolved, quickFallbackColumn, quickFallbackTarget,
                 edits, alert, incomingItems>>

\* a user interaction with the open dialog
Editing == pc = "mapping" /\ edits < MaxEdits

Edited == edits' = edits + 1 /\ alert' = "none"

\* the retag panel is rendered while some row is unresolved
RetagPanelShown == Len(importAnalysis(data, mapping).unresolved) > 0

SelectOptions == Range(keys) \cup { <<>> }

\* mutant: choosing another name column starts the overrides afresh
SetNameField_ResetsRetag ==
  /\ Editing
  /\ \E value \in SelectOptions :
       mapping' = [mapping EXCEPT !.nameField = value, !.manualRetagByRow = <<>>]
  /\ Edited
  /\ UNCHANGED <<data, keys, showOnlyUnresolved, quickFallbackColumn,
                 quickFallbackTarget, pc, incomingItems>>

SetNameField ==
  /\ Editing
  /\ \E value \in SelectOptions : mapping' = [mapping EXCEPT !.nameField = value]
  /\ Edited
  /\ UNCHANGED <<data, keys, showOnlyUnresolved, quickFallbackColumn,
                 quickFallbackTarget, pc, incomingItems>>

SetCostField ==
  /\ Editing
  /\ \E value \in SelectOptions : mapping' = [mapping EXCEPT !.costField = value]
  /\ Edited
  /\ UNCHANGED <<data, keys, showOnlyUnresolved, quickFallbackColumn,
                 quickFallbackTarget, pc, incomingItems>>

SetSrpField ==
  /\ Editing
  /\ \E value \in SelectOptions : mapping' = [mapping EXCEPT !.srpField = value]
  /\ Edited
  /\ UNCHANGED <<data, keys, showOnlyUnresolved, quickFallbackColumn,
                 quickFallbackTarget, pc, incomingItems>>

SetBrandName ==
  /\ Editing
  /\ \E value \in Brands : mapping' = [mapping EXCEPT !.brandName = value]
  /\ Edited
  /\ UNCHANGED <<data, keys, showOnlyUnresolved, quickFallbackColumn,
                 quickFallbackTarget, pc, incomingItems>>

Without(list, field) == LET Keep(key) == key # field IN SelectSeq(list, Keep)

\* checked ? [...current, field] : current.filter(k => k !== field), de-duplicated
\* mutant: a ticked field is put in front of the list
ToggledList_Prepend(current, field, checked) ==
  Dedup(IF checked THEN <<field>> \o current ELSE Without(current, field))

ToggledList(current, field, checked) ==
  Dedup(IF checked THEN Append(current, field) ELSE Without(current, field))

toggleFallbackField(m, type, field, checked) ==
  CASE type = "name" ->
         [m EXCEPT !.nameFallbackFields = ToggledList(@, field, checked)]
    [] type = "cost" ->
         [m EXCEPT !.costFallbackFields = ToggledList(@, field, checked)]
    [] type = "srp" ->
         [m EXCEPT !.srpFallbackFields = ToggledList(@, field, checked)]
    [] OTHER -> m

PrimaryOf(m, type) ==
  CASE type = "name" -> m.nameField
    [] type = "cost" -> m.costField
    [] type = "srp" -> m.srpField

FallbacksOf(m, type) ==
  CASE type = "name" -> m.nameFallbackFields
    [] type = "cost" -> m.costFallbackFields
    [] type = "srp" -> m.srpFallbackFields

\* a fallback checkbox: one per key other than the primary field (the srp list is
\* rendered only with a srpField); clicking it passes the box's new state
ToggleFallbackBox ==
  /\ Editing
  /\ \E type \in {"name", "cost", "srp"} : \E field \in Range(keys) :
       /\ field # PrimaryOf(mapping, type)
       /\ type = "srp" => Truthy(mapping.srpField)
       /\ mapping' = toggleFallbackField(mapping, type, field,
                                         field \notin Range(FallbacksOf(mapping, type)))
  /\ Edited
  /\ UNCHANGED <<data, keys, showOnlyUnresolved, quickFallbackColumn,
                 quickFallbackTarget, pc, incomingItems>>

\* prev.manualRetagByRow?.[rowIndex] || {}
CurrentRetag(m, rowIndex) ==
  IF rowIndex \in DOMAIN m.manualRetagByRow
    THEN m.manualRetagByRow[rowIndex] ELSE EmptyRetag

\* mutant: the override is filed under the row's position counted from 1
updateManualRetag_KeyedByPosition(m, rowIndex, field, value) ==
  [m EXCEPT !.manualRetagByRow =
     [i \in (DOMAIN @) \cup {rowIndex + 1} |->
        IF i = rowIndex + 1
          THEN [CurrentRetag(m, rowIndex + 1) EXCEPT ![field] = value]
        ELSE @[i]]]

\* mutant: the partial replaces the row's override record instead of merging
updateManualRetag_ReplacesRecord(m, rowIndex, field, value) ==
  [m EXCEPT !.manualRetagByRow =
     [i \in (DOMAIN @) \cup {rowIndex} |->
        IF i = rowIndex THEN [EmptyRetag EXCEPT ![field] = value]
        ELSE @[i]]]

updateManualRetag(m, rowIndex, field, value) ==
  [m EXCEPT !.manualRetagByRow =
     [i \in (DOMAIN @) \cup {rowIndex} |->
        IF i = rowIndex THEN [CurrentRetag(m, rowIndex) EXCEPT ![field] = value]
        ELSE @[i]]]

RetagInputs ==
  { <<"name", Str(s)>> : s \in RetagNames }
    \cup { <<"costPrice", Num(n)>> : n \in RetagPrices }
    \cup { <<"srpPrice", Num(n)>> : n \in RetagPrices }

\* typing into one of the three inputs of a listed row
RetagRow ==
  /\ Editing
  /\ RetagPanelShown
  /\ \E entry \in Range(rowsForRetag(data, mapping, showOnlyUnresolved)) :
       \E input \in RetagInputs :
         mapping' = updateManualRetag(mapping, entry.index, input[1], input[2])
  /\ Edited
  /\ UNCHANGED <<data, keys, showOnlyUnresolved, quickFallbackColumn,
                 quickFallbackTarget, pc, incomingItems>>

SetShowOnlyUnresolved ==
  /\ Editing
  /\ RetagPanelShown
  /\ showOnlyUnresolved' = ~showOnlyUnresolved
  /\ Edited
  /\ UNCHANGED <<data, keys, mapping, quickFallbackColumn, quickFallbackTarget,
                 pc, incomingItems>>

SetQuickFallback ==
  /\ Editing
  /\ RetagPanelShown
  /\ \E column \in SelectOptions : \E target \in {"name", "cost"} :
       /\ <<column, target>> # <<quickFallbackColumn, quickFallbackTarget>>
       /\ quickFallbackColumn' = column
       /\ quickFallbackTarget' = target
  /\ Edited
  /\ UNCHANGED <<data, keys, mapping, showOnlyUnresolved, pc, incomingItems>>

applyQuickFallback ==
  /\ Editing
  /\ RetagPanelShown
  /\ edits' = edits + 1
  /\ IF ~Truthy(quickFallbackColumn)
       THEN alert' = "Please select a column first." /\ UNCHANGED mapping
     ELSE IF getQuickFallbackEligibleCount(data, mapping, quickFallbackColumn,
                                            quickFallbackTarget) = 0
       THEN /\ alert' = "Selected column has no usable data for unresolved rows."
            /\ UNCHANGED mapping
     ELSE /\ alert' = "none"
          /\ mapping' = toggleFallbackField(mapping, quickFallbackTarget,
                                            quickFallbackColumn, TRUE)
  /\ UNCHANGED <<data, keys, showOnlyUnresolved, quickFallbackColumn,
                 quickFallbackTarget, pc, incomingItems>>

\* mutant: the brand name is not tested
handleSubmit_NoBrandGate ==
  /\ pc = "mapping"
  /\ IF ~Truthy(mapping.nameField) \/ ~Truthy(mapping.costField)
       THEN /\ alert' = "Please map the Product Name and Cost Price columns."
            /\ UNCHANGED <<pc, incomingItems>>
     ELSE /\ alert' = "none"
          /\ pc' = "confirmed"
          /\ incomingItems' = IncomingItems(data, mapping)
  /\ UNCHANGED <<data, keys, mapping, showOnlyUnresolved, quickFallbackColumn,
                 quickFallbackTarget, edits>>

\* handleSubmit, and on success onConfirm = App.handleMappingConfirm's transform
handleSubmit ==
  /\ pc = "mapping"
  /\ IF ~Truthy(mapping.nameField) \/ ~Truthy(mapping.costField)
       THEN /\ alert' = "Please map the Product Name and Cost Price columns."
            /\ UNCHANGED <<pc, incomingItems>>
     ELSE IF ~Truthy(trim(mapping.brandName))
       THEN /\ alert' = "Please enter a Brand Name for this price list."
            /\ UNCHANGED <<pc, incomingItems>>
     ELSE /\ alert' = "none"
          /\ pc' = "confirmed"
          /\ incomingItems' = IncomingItems(data, mapping)
  /\ UNCHANGED <<data, keys, mapping, showOnlyUnresolved, quickFallbackColumn,
                 quickFallbackTarget, edits>>

pureVars == <<priceVars, scoreVars, harmVars, importVars>>

Next ==
  \/ AutoGuess /\ UNCHANGED pureVars
  \/ SetNameField /\ UNCHANGED pureVars
  \/ SetCostField /\ UNCHANGED pureVars
  \/ SetSrpField /\ UNCHANGED pureVars
  \/ SetBrandName /\ UNCHANGED pureVars
  \/ ToggleFallbackBox /\ UNCHANGED pureVars
  \/ RetagRow /\ UNCHANGED pureVars
  \/ SetShowOnlyUnresolved /\ UNCHANGED pureVars
  \/ SetQuickFallback /\ UNCHANGED pureVars
  \/ applyQuickFallback /\ UNCHANGED pureVars
  \/ handleSubmit /\ UNCHANGED pureVars

Init == SessionInit /\ PriceIdle /\ ScoreIdle /\ HarmIdle /\ ImportIdle
Spec == Init /\ [][Next]_vars

----------------------------------------------------------------------------
(* Claims on the mapping session *)

\* the mapping with the manual override of one field of one row removed
WithoutOverride(m, rowIndex, field) ==
  [m EXCEPT !.manualRetagByRow =
     [i \in DOMAIN @ |-> IF i = rowIndex THEN [@[i] EXCEPT ![field] = Undefined]
                         ELSE @[i]]]

\* the row with the cell of one column cleared
ClearedCell(row, key) ==
  [i \in DOMAIN row |-> IF row[i].k = key THEN Pair(key, Str(<<>>)) ELSE row[i]]

UsableText(row, key) == Truthy(normalizeText(Cell(row, key)))
UsablePrice(row, key) == parsePrice(Cell(row, key)) > 0

\* the fallback columns, in configured order, that hold a usable value
UsableNameFallbacks(row, m) ==
  LET Usable(key) == UsableText(row, key)
  IN SelectSeq(m.nameFallbackFields, Usable)

UsableCostFallbacks(row, m) ==
  LET Usable(key) == UsablePrice(row, key)
  IN SelectSeq(m.costFallbackFields, Usable)

\* the override, the primary column and a fallback column other than the
\* primary hold pairwise different usable names
NameCase(row, rowIndex, m) ==
  /\ Truthy(normalizeText(ManualField(m, rowIndex, "name")))
  /\ m.nameField # <<>>
  /\ UsableText(row, m.nameField)
  /\ UsableNameFallbacks(ClearedCell(row, m.nameField), m) # <<>>
  /\ Cardinality({ normalizeText(ManualField(m, rowIndex, "name")),
                   normalizeText(Cell(row, m.nameField)),
                   normalizeText(Cell(row,
                     Head(UsableNameFallbacks(ClearedCell(row, m.nameField), m)))) }) = 3

CostCase(row, rowIndex, m) ==
  /\ NumberOrZero(ManualField(m, rowIndex, "costPrice")) > 0
  /\ m.costField # <<>>
  /\ UsablePrice(row, m.costField)
  /\ UsableCostFallbacks(ClearedCell(row, m.costField), m) # <<>>
  /\ Cardinality({ NumberOrZero(ManualField(m, rowIndex, "costPrice")),
                   parsePrice(Cell(row, m.costField)),
                   parsePrice(Cell(row,
                     Head(UsableCostFallbacks(ClearedCell(row, m.costField), m)))) }) = 3

NamePriority(row, rowIndex, m) ==
  /\ resolveName(row, rowIndex, m) = normalizeText(ManualField(m, rowIndex, "name"))
  /\ resolveName(row, rowIndex, WithoutOverride(m, rowIndex, "name"))
       = normalizeText(Cell(row, m.nameField))
  /\ resolveName(ClearedCell(row, m.nameField), rowIndex,
                 WithoutOverride(m, rowIndex, "name"))
       = normalizeText(Cell(row,
           Head(UsableNameFallbacks(ClearedCell(row, m.nameField), m))))

CostPriority(row, rowIndex, m) ==
  /\ resolveCost(row, rowIndex, m) = NumberOrZero(ManualField(m, rowIndex, "costPrice"))
  /\ resolveCost(row, rowIndex, WithoutOverride(m, rowIndex, "costPrice"))
       = parsePrice(Cell(row, m.costField))
  /\ resolveCost(ClearedCell(row, m.costField), rowIndex,
                 WithoutOverride(m, rowIndex, "costPrice"))
       = parsePrice(Cell(row,
           Head(UsableCostFallbacks(ClearedCell(row, m.costField), m))))

\* C1: for every row of the batch and every mapping the dialog reaches in which
\* the manual override, the primary column and a fallback column hold different
\* usable values, resolveName and resolveCost return the override's value; with
\* the override removed they return the primary column's value; with the primary
\* cell cleared as well they return the value of the first usable fallback
\* column in configured order.
C1_ResolverPriority ==
  \A i \in 1..Len(data) :
    /\ NameCase(data[i], i - 1, mapping) => NamePriority(data[i], i - 1, mapping)
    /\ CostCase(data[i], i - 1, mapping) => CostPriority(data[i], i - 1, mapping)

\* a row whose name override, primary name column and name fallback column
\* hold three different usable names
C1_Witness ==
  \E i \in 1..Len(data) : NameCase(data[i], i - 1, mapping)

\* the same for the cost price of some row
C1_WitnessCost ==
  \E i \in 1..Len(data) : CostCase(data[i], i - 1, mapping)

\* the counts of an analysis of the batch d
CountsAddUp(analysis, d) ==
  /\ analysis.ready + Len(analysis.unresolved) = analysis.total
  /\ analysis.total = Len(d)

\* C2: for every batch and every mapping and override table the dialog reaches
\* by mapping edits, the analysis has ready + length(unresolved) = total, and
\* total is the number of rows of the batch.
C2_ReadyPlusUnresolved ==
  CountsAddUp(importAnalysis(data, mapping), data)

\* after edits that left an override, a batch with ready and unresolved rows
C2_Witness ==
  /\ pc = "mapping"
  /\ edits > 0
  /\ DOMAIN mapping.manualRetagByRow # {}
  /\ importAnalysis(data, mapping).ready > 0
  /\ Len(importAnalysis(data, mapping).unresolved) > 0

\* the rows the analysis classifies as resolved, as (name, costPrice, rawJson)
ResolvedRecords(analysis) ==
  LET IsResolved(e) == e.isResolved
      resolved == SelectSeq(analysis.rows, IsResolved)
  IN [i \in 1..Len(resolved) |->
        [name |-> resolved[i].currentName, costPrice |-> resolved[i].currentCost,
         rawJson |-> resolved[i].row]]

SentRecords ==
  [i \in 1..Len(incomingItems) |->
     [name |-> incomingItems[i].name, costPrice |-> incomingItems[i].costPrice,
      rawJson |-> incomingItems[i].rawJson]]

\* C5: the records handleMappingConfirm sends on are exactly the rows the
\* analysis classifies as resolved under the same mapping and overrides: one
\* record per resolved row, none for an unresolved row, with the resolved name
\* and the resolved cost.
C5_ImportMatchesAnalysis ==
  pc = "confirmed" => SentRecords = ResolvedRecords(importAnalysis(data, mapping))

\* C10 as stated: without a srpField, resolveSrp returns 0 for every row,
\* whatever the cells, the srpFallbackFields and the manual overrides hold.
C10_NoSrpFieldZero ==
  ~Truthy(mapping.srpField) =>
    \A i \in 1..Len(data) : resolveSrp(data[i], i - 1, mapping) = 0

\* C10: without a srpField, resolveSrp returns the row's manual SRP override
\* when that is > 0 and 0 otherwise, whatever the cells and the
\* srpFallbackFields hold.
C10_NoSrpFieldOverrideOrZero ==
  ~Truthy(mapping.srpField) =>
    \A i \in 1..Len(data) :
      resolveSrp(data[i], i - 1, mapping)
        = IF NumberOrZero(ManualField(mapping, i - 1, "srpPrice")) > 0
            THEN NumberOrZero(ManualField(mapping, i - 1, "srpPrice"))
            ELSE 0

\* no srpField, a row with priced cells and a manual SRP override > 0
C10_Witness ==
  /\ pc = "mapping"
  /\ ~Truthy(mapping.srpField)
  /\ \E i \in 1..Len(data) :
       /\ NumberOrZero(ManualField(mapping, i - 1, "srpPrice")) > 0
       /\ \E j \in 1..Len(data[i]) : parsePrice(data[i][j].v) > 0

\* no srpField, yet a listed SRP fallback column with a usable price
C10_WitnessFallback ==
  /\ ~Truthy(mapping.srpField)
  /\ \E i \in 1..Len(data) : \E j \in 1..Len(mapping.srpFallbackFields) :
       UsablePrice(data[i], mapping.srpFallbackFields[j])

----------------------------------------------------------------------------
(* Claims on the analysis, the submission gates and the overrides *)

\* the reason the classification of a row calls for
ExpectedReason(missingName, missingCost) ==
  IF missingName /\ missingCost THEN "Missing Product Name and Cost Price"
  ELSE IF missingName THEN "Missing Product Name"
  ELSE "Missing Cost Price"

\* the flags of an entry of rows against the resolved name and cost
FlagsMatch(entry, name, cost) ==
  /\ entry.hasName = (name # <<>>)
  /\ entry.hasCost = (cost > 0)
  /\ entry.isResolved = (name # <<>> /\ cost > 0)

\* the flags of every entry of rows and the reason of every entry of
\* unresolved, against the resolvers
ClassifiedByResolvers(analysis, d, m) ==
  /\ Len(analysis.rows) = Len(d)
  /\ \A i \in 1..Len(d) :
       FlagsMatch(analysis.rows[i], resolveName(d[i], i - 1, m),
                  resolveCost(d[i], i - 1, m))
  /\ \A j \in 1..Len(analysis.unresolved) :
       analysis.unresolved[j].reason
         = ExpectedReason(
             resolveName(analysis.unresolved[j].row, analysis.unresolved[j].index, m)
               = <<>>,
             resolveCost(analysis.unresolved[j].row, analysis.unresolved[j].index, m)
               <= 0)

\* C11: for every row the analysis sets hasName = (resolved name non-empty),
\* hasCost = (resolved cost > 0) and isResolved = hasName and hasCost, and the
\* reason of an unresolved row is "Missing Product Name and Cost Price" when
\* both are missing, else "Missing Product Name" when the name is missing,
\* else "Missing Cost Price".
C11_Classification ==
  ClassifiedByResolvers(importAnalysis(data, mapping), data, mapping)

\* the reasons the analysis gives
Reasons(unresolved) == { unresolved[j].reason : j \in 1..Len(unresolved) }

\* a batch whose unresolved rows show all three reasons, next to a mapped
\* name column and a mapped cost column
C11_Witness ==
  /\ pc = "mapping"
  /\ Truthy(mapping.nameField) /\ Truthy(mapping.costField)
  /\ Reasons(importAnalysis(data, mapping).unresolved)
       = { "Missing Product Name and Cost Price", "Missing Product Name",
           "Missing Cost Price" }

\* the batch [{Desc: "Sony A7C", Net: "24.845"}, {Desc: "", Net: "91.199"}]
\* under the mapping nameField = Desc, costField = Net, no fallback columns
ScenarioMapped(d, m) ==
  /\ d = << <<Pair(H_Desc, Str(T_SonyA7C)), Pair(H_Net, Str(T_24845))>>,
            <<Pair(H_Desc, Str(<<>>)), Pair(H_Net, Str(T_91199))>> >>
  /\ m.nameField = H_Desc /\ m.costField = H_Net
  /\ m.nameFallbackFields = <<>> /\ m.costFallbackFields = <<>>

\* the override table {1: {name: "Unknown Item"}}
OnlyUnknownItem(m) ==
  /\ DOMAIN m.manualRetagByRow = {1}
  /\ m.manualRetagByRow[1]
       = [name |-> Str(T_UnknownItem), costPrice |-> Undefined, srpPrice |-> Undefined]

ScenarioWithoutOverride(analysis) ==
  /\ analysis.total = 2 /\ analysis.ready = 1
  /\ Len(analysis.rows) = 2
  /\ analysis.rows[1].currentName = T_SonyA7C
  /\ analysis.rows[1].currentCost = 24845
  /\ analysis.rows[1].isResolved
  /\ analysis.rows[2].currentName = <<>>
  /\ analysis.rows[2].currentCost = 91199
  /\ ~analysis.rows[2].isResolved
  /\ analysis.rows[2].reason = "Missing Product Name"
  /\ Len(analysis.unresolved) = 1
  /\ analysis.unresolved[1].index = 1
  /\ analysis.unresolved[1].reason = "Missing Product Name"

ScenarioWithOverride(analysis) ==
  /\ analysis.total = 2 /\ analysis.ready = 2
  /\ analysis.unresolved = <<>>
  /\ analysis.rows[2].isResolved
  /\ analysis.rows[2].currentName = T_UnknownItem
  /\ analysis.rows[2].currentCost = 91199

\* C12: for the batch [{Desc: "Sony A7C", Net: "24.845"}, {Desc: "", Net:
\* "91.199"}] with nameField = Desc, costField = Net and no overrides, row 0
\* resolves to "Sony A7C" / 24845, resolved; row 1 to "" / 91199, unresolved
\* with reason "Missing Product Name"; total 2, ready 1, unresolved = [row 1];
\* with the override {1: {name: "Unknown Item"}} row 1 is resolved, ready is 2
\* and unresolved is empty.
C12_EndToEnd ==
  ScenarioMapped(data, mapping) =>
    /\ DOMAIN mapping.manualRetagByRow = {} =>
         /\ ScenarioWithoutOverride(importAnalysis(data, mapping))
         /\ ScenarioWithOverride(
              importAnalysis(data,
                updateManualRetag(mapping, 1, "name", Str(T_UnknownItem))))
    /\ OnlyUnknownItem(mapping) =>
         ScenarioWithOverride(importAnalysis(data, mapping))

\* the scenario's batch and mapping after "Unknown Item" was typed for row 1
C12_Witness ==
  /\ pc = "mapping"
  /\ ScenarioMapped(data, mapping)
  /\ OnlyUnknownItem(mapping)

\* nameField and costField set and the brand name not blank
Submittable(m) ==
  /\ m.nameField # <<>>
  /\ m.costField # <<>>
  /\ \E i \in 1..Len(m.brandName) : ~IsSpace(m.brandName[i])

\* a click on the import button: the one step of the open dialog that is no
\* edit
SubmitStep == pc = "mapping" /\ edits' = edits

\* C13: handleSubmit calls onConfirm exactly when nameField and costField are
\* set and the brand name is not blank (empty or whitespace only); a rejected
\* submission leaves the mapping unchanged, and onConfirm is called by no
\* other step.
C13_SubmissionGates ==
  [][ /\ SubmitStep =>
           /\ mapping' = mapping
           /\ (pc' = "confirmed") = Submittable(mapping)
           /\ ~Submittable(mapping) => incomingItems' = incomingItems
      /\ pc' = "confirmed" => SubmitStep ]_vars

\* a submission rejected for a brand name of one space, the columns mapped
C13_Witness ==
  /\ pc = "mapping"
  /\ mapping.nameField # <<>> /\ mapping.costField # <<>>
  /\ mapping.brandName = <<" ">>
  /\ alert = "Please enter a Brand Name for this price list."

\* a submission rejected for an unset nameField, the brand name given
C13_WitnessNoName ==
  /\ pc = "mapping"
  /\ mapping.nameField = <<>>
  /\ Submittable([mapping EXCEPT !.nameField = <<"x">>])
  /\ alert = "Please map the Product Name and Cost Price columns."

----------------------------------------------------------------------------
(* Claims on the Price Normalizer *)

\* C14: the Price Normalizer is idempotent when its result is fed back as a
\* number: for every raw cell value x, normalize(normalize(x)) = normalize(x).
C14_NormalizeIdempotent ==
  pPc = "normalized" => parsePrice(Num(pOut.parsed)) = pOut.parsed

\* text with digits among other characters was normalized to a positive price
C14_Witness ==
  /\ pPc = "normalized"
  /\ pIn.t = "str"
  /\ \E i \in 1..Len(pIn.s) : ~IsDigit(pIn.s[i])
  /\ pOut.parsed > 0

\* the base-10 number written by the ASCII digits of s, read left to right,
\* every other character skipped; acc is the number read so far
RECURSIVE DecimalOfDigits(_, _)
DecimalOfDigits(s, acc) ==
  IF s = <<>> THEN acc
  ELSE IF Head(s) \in {"0", "1", "2", "3", "4", "5", "6", "7", "8", "9"}
    THEN DecimalOfDigits(Tail(s),
           10 * acc + CHOOSE d \in 0..9 :
             <<"0", "1", "2", "3", "4", "5", "6", "7", "8", "9">>[d + 1] = Head(s))
  ELSE DecimalOfDigits(Tail(s), acc)

T_Rp1500000 == <<"R","p"," ","1",".","5","0","0",".","0","0","0">>

\* C15: for every string the Price Normalizer returns the base-10 integer
\* formed by the string's ASCII digits in order, all other characters removed,
\* and 0 when no digit remains; a finite number is returned unchanged.
\* "Rp 1.500.000" gives 1500000, 1500000 gives 1500000, "" gives 0 and "n/a"
\* gives 0.
C15_DigitsOfText ==
  pPc = "normalized" =>
    /\ pIn.t = "str" => pOut.parsed = DecimalOfDigits(pIn.s, 0)
    /\ pIn.t = "num" => pOut.parsed = pIn.n
    /\ pIn = Str(T_Rp1500000) => pOut.parsed = 1500000
    /\ pIn = Num(1500000) => pOut.parsed = 1500000
    /\ pIn = Str(<<>>) => pOut.parsed = 0
    /\ pIn = Str(<<"n", "/", "a">>) => pOut.parsed = 0

\* "Rp 1.500.000" was normalized
C15_Witness ==
  /\ pPc = "normalized"
  /\ pIn = Str(T_Rp1500000)
  /\ pOut.parsed = 1500000

----------------------------------------------------------------------------
(* Claims on the Header Similarity Scorer *)

\* C16: similarityScore returns 1.0 for any two headers that are equal
\* ignoring case, before any category or anti-match rule; score(x, x) = 1.0
\* for every non-empty x, also for an x of both the cost and the srp category.
C16_EqualHeadersScoreOne ==
  (sPc = "scored" /\ toLowerCase(sA) = toLowerCase(sB)) => ScoreEq(sOut, Score(1, 1))

\* a header of the cost and of the srp category scored against itself
C16_Witness ==
  /\ sPc = "scored"
  /\ sA = H_NetRetail /\ sB = sA
  /\ IsCostHeader(sA) /\ IsSrpHeader(sA)
  /\ ScoreEq(sOut, Score(1, 1))

\* two headers that differ in case only were scored
C16_WitnessCase ==
  /\ sPc = "scored"
  /\ sA # sB /\ toLowerCase(sA) = toLowerCase(sB)
  /\ IsCostHeader(sA)

\* the anti-match rule applies to a pair of different headers
AntiMatchFires(a, b) ==
  /\ toLowerCase(a) # toLowerCase(b)
  /\ \/ IsCostHeader(a) /\ IsSrpHeader(b)
     \/ IsSrpHeader(a) /\ IsCostHeader(b)

\* C17: for two headers not equal ignoring case and without anti-match,
\* similarityScore returns 0.9 whenever they share a matched category, which
\* passes the 0.75 threshold of the same column; a pair for which the
\* anti-match rule fires never passes it; score("Cost Price", "Dealer Price")
\* is at least 0.75.
C17_SharedCategoryPasses ==
  sPc = "scored" =>
    /\ ( /\ toLowerCase(sA) # toLowerCase(sB)
         /\ ~AntiMatchFires(sA, sB)
         /\ \E cat \in Categories : RegexTest(patterns(cat), sA)
                                     /\ RegexTest(patterns(cat), sB) )
       => (ScoreEq(sOut, Score(9, 10)) /\ AtLeastThreshold(sOut))
    /\ AntiMatchFires(sA, sB) => ~AtLeastThreshold(sOut)
    /\ (sA = H_CostPrice /\ sB = H_DealerPrice) => AtLeastThreshold(sOut)

\* "Cost Price" scored against "Dealer Price"
C17_Witness ==
  /\ sPc = "scored"
  /\ sA = H_CostPrice /\ sB = H_DealerPrice
  /\ ScoreEq(sOut, Score(9, 10))

\* a pair for which the anti-match rule fires was scored
C17_WitnessAntiMatch ==
  /\ sPc = "scored"
  /\ AntiMatchFires(sA, sB)

----------------------------------------------------------------------------
(* Claims on malformed input and on the overrides *)

IsText(x) == x \in Seq(STRING)

\* a score is a number between 0 and 1
IsScore(x) == x.den > 0 /\ 0 <= x.num /\ x.num <= x.den

\* a key no row of the session batches holds
H_Missing == <<"M", "i", "s", "s", "i", "n", "g">>

\* the normalizers return text and a number for every cell of the batch and
\* for the cell of a key the row lacks
NormalizersTotal(d) ==
  \A i \in 1..Len(d) :
    \A key \in Range(ObjectKeys(d[i])) \cup {H_Missing} :
      /\ IsText(normalizeText(Cell(d[i], key)))
      /\ parsePrice(Cell(d[i], key)) \in Int

\* the scorer returns a score for every pair of headers of the batch
ScorerTotal(d) ==
  \A a \in Range(AllKeys(d)) : \A b \in Range(AllKeys(d)) :
    IsScore(similarityScore(a, b))

\* the harmonizer returns a batch of as many rows, each with keys of the batch
HarmonizerTotal(d) ==
  /\ Len(harmonizeColumnNames(d)) = Len(d)
  /\ \A i \in 1..Len(d) :
       Range(ObjectKeys(harmonizeColumnNames(d)[i])) \subseteq Range(AllKeys(d))

\* the resolvers return text, a number and a number for every row
ResolversTotal(d, m) ==
  \A i \in 1..Len(d) :
    /\ IsText(resolveName(d[i], i - 1, m))
    /\ resolveCost(d[i], i - 1, m) \in Int
    /\ resolveSrp(d[i], i - 1, m) \in Int

\* the analysis classifies every row, and an unusable row as unresolved
AnalyzerTotal(analysis, d) ==
  /\ analysis.total = Len(d)
  /\ Len(analysis.rows) = Len(d)
  /\ \A i \in 1..Len(d) :
       /\ analysis.rows[i].isResolved \in BOOLEAN
       /\ analysis.rows[i].reason \in
            { "Missing Product Name and Cost Price", "Missing Product Name",
              "Missing Cost Price" }
       /\ (analysis.rows[i].currentName = <<>> \/ analysis.rows[i].currentCost = 0)
            => ~analysis.rows[i].isResolved

\* C18: the core never fails on malformed input: for every batch and mapping,
\* with rows that lack the mapped keys, cells of non-numeric junk, rows with no
\* keys and the empty batch, the normalizer, scorer, harmonizer, resolvers and
\* analyzer each return a value (empty string, 0 or an unresolved
\* classification).
C18_CoreTotal ==
  /\ pc = "mount" =>
       /\ NormalizersTotal(data)
       /\ ScorerTotal(data)
       /\ HarmonizerTotal(data)
       /\ harmonizeColumnNames(<<>>) = <<>>
  /\ pc # "idle" =>
       /\ ResolversTotal(data, mapping)
       /\ AnalyzerTotal(importAnalysis(data, mapping), data)
       /\ importAnalysis(<<>>, mapping)
            = [total |-> 0, ready |-> 0, unresolved |-> <<>>, rows |-> <<>>]

\* a batch with a row without keys and a row with an empty header and a
\* non-finite number, both classified as unresolved, the mapped columns being
\* ones the first row lacks
C18_Witness ==
  /\ pc = "mapping"
  /\ \E i \in 1..Len(data) : data[i] = <<>>
  /\ \E i \in 1..Len(data) : \E j \in 1..Len(data[i]) : data[i][j].v = NonFinite
  /\ Truthy(mapping.costField)
  /\ importAnalysis(data, mapping).ready = 0
  /\ Len(importAnalysis(data, mapping).unresolved) = Len(data)

\* the step is the user's typing into a retag input: of the mapping only the
\* override table changes, and there only the entry of one row
RetagTyping ==
  /\ [mapping' EXCEPT !.manualRetagByRow = mapping.manualRetagByRow] = mapping
  /\ \E i \in DOMAIN mapping'.manualRetagByRow :
       \A j \in DOMAIN mapping.manualRetagByRow \ {i} :
         /\ j \in DOMAIN mapping'.manualRetagByRow
         /\ mapping'.manualRetagByRow[j] = mapping.manualRetagByRow[j]

\* every usable override of the table is what the resolvers return
OverridesResolve(d, m) ==
  \A i \in DOMAIN m.manualRetagByRow \cap 0..(Len(d) - 1) :
    /\ Truthy(normalizeText(m.manualRetagByRow[i].name))
         => resolveName(d[i + 1], i, m) = normalizeText(m.manualRetagByRow[i].name)
    /\ NumberOrZero(m.manualRetagByRow[i].costPrice) > 0
         => resolveCost(d[i + 1], i, m) = m.manualRetagByRow[i].costPrice.n
    /\ NumberOrZero(m.manualRetagByRow[i].srpPrice) > 0
         => resolveSrp(d[i + 1], i, m) = m.manualRetagByRow[i].srpPrice.n

\* C19: manual overrides are never cleared automatically: over any sequence
\* of mapping edits of one session (nameField, costField, srpField, brandName,
\* fallback toggles, the quick fallback, the auto-guess) every override entry
\* stays with the same values, only the user's typing into a retag input
\* changes one, and every usable override takes part in every resolution.
C19_OverridesKept ==
  /\ [][ \/ mapping'.manualRetagByRow = mapping.manualRetagByRow
         \/ RetagTyping ]_vars
  /\ [](pc \in {"mapping", "confirmed"} => OverridesResolve(data, mapping))

\* an override typed for a row, still resolving the row's name after the
\* name column was unset and an edit later
C19_Witness ==
  /\ pc = "mapping"
  /\ edits = MaxEdits
  /\ mapping.nameField = <<>>
  /\ \E i \in DOMAIN mapping.manualRetagByRow :
       /\ Truthy(normalizeText(mapping.manualRetagByRow[i].name))
       /\ resolveName(data[i + 1], i, mapping)
            = normalizeText(mapping.manualRetagByRow[i].name)
       /\ UsableText(data[i + 1], H_Desc)

\* C20: resolveCost and resolveSrp return a value >= 0 for every row, row
\* index, mapping and override table, also for rows whose mapped cells are
\* negative numbers and for overrides of zero or negative prices.
C20_ResolvedPricesNonNegative ==
  \A i \in 1..Len(data) :
    /\ resolveCost(data[i], i - 1, mapping) >= 0
    /\ resolveSrp(data[i], i - 1, mapping) >= 0

\* a row whose mapped cost cell is a negative number and whose cost override
\* is negative
C20_Witness ==
  /\ pc = "mapping"
  /\ \E i \in 1..Len(data) :
       /\ Cell(data[i], mapping.costField).t = "num"
       /\ Cell(data[i], mapping.costField).n < 0
       /\ parsePrice(Cell(data[i], mapping.costField)) < 0
       /\ NumberOrZero(ManualField(mapping, i - 1, "costPrice")) < 0

\* a row whose mapped SRP cell is a negative number and whose SRP override is
\* negative
C20_WitnessSrp ==
  /\ pc = "mapping"
  /\ \E i \in 1..Len(data) :
       /\ parsePrice(Cell(data[i], mapping.srpField)) < 0
       /\ NumberOrZero(ManualField(mapping, i - 1, "srpPrice")) < 0

----------------------------------------------------------------------------
(* Claims on the grouping and the rewriting of the Column Harmonizer *)

\* the keys held by the groups opened before group g
AssignedBefore(groups, g) == UNION { Range(groups[h].variants) : h \in 1..(g - 1) }

\* the earliest key of the first-seen order outside a set of keys
EarliestOutside(allKeys, taken) ==
  allKeys[CHOOSE i \in 1..Len(allKeys) :
            /\ allKeys[i] \notin taken
            /\ \A h \in 1..(i - 1) : allKeys[h] \in taken]

\* the group is the one a greedy pass opens when the keys of taken are assigned
GreedyGroup(group, allKeys, taken) ==
  /\ Range(allKeys) \ taken # {}
  /\ group.canonical = EarliestOutside(allKeys, taken)
  /\ group.variants[1] = group.canonical
  /\ Range(group.variants)
       = {group.canonical}
           \cup { key \in Range(allKeys) \ taken :
                    AtLeastThreshold(similarityScore(group.canonical, key)) }

\* C21: the Harmonizer groups greedily over the first-seen order of header
\* keys: each group's canonical key is the earliest key of that order not yet
\* assigned, and its members are exactly that key plus every key still
\* unassigned at that moment whose score against the canonical key is >= 0.75
\* (members are not compared with each other); the groups use up all keys.
C21_GreedyGroups ==
  hPc # "raw" =>
    /\ \A g \in 1..Len(hGroups) :
         GreedyGroup(hGroups[g], AllKeys(hRows), AssignedBefore(hGroups, g))
    /\ AssignedBefore(hGroups, Len(hGroups) + 1) = Range(AllKeys(hRows))

\* a group with two members that score below 0.75 against each other, in
\* either direction
C21_Witness ==
  /\ hPc = "once"
  /\ \E g \in 1..Len(hGroups) :
       \E x, y \in Range(hGroups[g].variants) :
         /\ ~AtLeastThreshold(similarityScore(x, y))
         /\ ~AtLeastThreshold(similarityScore(y, x))

\* a key joined no group of a member it scores >= 0.75 against, the group's
\* canonical key being another
C21_WitnessNotTransitive ==
  /\ hPc = "once"
  /\ \E g, h \in 1..Len(hGroups) :
       /\ g # h
       /\ \E x \in Range(hGroups[g].variants) :
            AtLeastThreshold(similarityScore(x, hGroups[h].canonical))

\* the places of the group's variants that are keys of the row
PresentVariants(row, variants) ==
  { j \in 1..Len(variants) : hasOwnProperty(row, variants[j]) }

\* the least number of a non-empty set of numbers
Least(S) == CHOOSE j \in S : \A h \in S : j <= h

\* the output row holds the canonical key exactly when the input row holds a
\* variant, with the value of the first one in group order
RewrittenGroup(outRow, inRow, group, present) ==
  /\ hasOwnProperty(outRow, group.canonical) <=> present # {}
  /\ present # {} =>
       Cell(outRow, group.canonical) = Cell(inRow, group.variants[Least(present)])

RewrittenRow(outRow, inRow, groups) ==
  /\ \A g \in 1..Len(groups) :
       RewrittenGroup(outRow, inRow, groups[g],
                      PresentVariants(inRow, groups[g].variants))
  /\ Range(ObjectKeys(outRow)) \subseteq { groups[g].canonical : g \in 1..Len(groups) }
  /\ Cardinality(Range(ObjectKeys(outRow))) = Len(outRow)

\* C22: the Harmonizer's output has the length and the order of its input and
\* output row i is built from input row i only: for each group the output row
\* holds the canonical key exactly when input row i has one of the group's
\* variants as a key, with the value of the first such variant in group order;
\* every key of every output row is a canonical key of the batch.
C22_RowsRewritten ==
  hPc # "raw" =>
    /\ Len(hOut) = Len(hRows)
    /\ \A i \in 1..Len(hRows) : RewrittenRow(hOut[i], hRows[i], hGroups)

\* a batch of two rows, one of which holds two variants of a group but not
\* its canonical key
C22_Witness ==
  /\ hPc = "once"
  /\ Len(hRows) = 2
  /\ \E i \in 1..Len(hRows) : \E g \in 1..Len(hGroups) :
       /\ Cardinality(PresentVariants(hRows[i], hGroups[g].variants)) = 2
       /\ ~hasOwnProperty(hRows[i], hGroups[g].canonical)
       /\ hasOwnProperty(hOut[i], hGroups[g].canonical)

\* a row that holds no variant of some group and so lacks its canonical key
C22_WitnessOmitted ==
  /\ hPc = "once"
  /\ \E i \in 1..Len(hRows) : \E g \in 1..Len(hGroups) :
       /\ PresentVariants(hRows[i], hGroups[g].variants) = {}
       /\ ~hasOwnProperty(hOut[i], hGroups[g].canonical)
       /\ hRows[i] # <<>>

----------------------------------------------------------------------------
(* Claims on the scanning order of the resolvers *)

\* the columns a resolver is configured to scan: the primary field when one
\* is set, then the fallback fields in declared order
ScanOrder(primary, fallbacks) ==
  (IF primary = <<>> THEN <<>> ELSE <<primary>>) \o fallbacks

\* the name of the first column of the list whose cell is usable, else ""
FirstUsableName(row, columns) ==
  IF \E j \in 1..Len(columns) : UsableText(row, columns[j])
    THEN normalizeText(Cell(row,
           columns[Least({ j \in 1..Len(columns) : UsableText(row, columns[j]) })]))
    ELSE <<>>

\* the price of the first column of the list whose cell is usable, else 0
FirstUsablePrice(row, columns) ==
  IF \E j \in 1..Len(columns) : UsablePrice(row, columns[j])
    THEN parsePrice(Cell(row,
           columns[Least({ j \in 1..Len(columns) : UsablePrice(row, columns[j]) })]))
    ELSE 0

ScansInOrder(row, rowIndex, m) ==
  /\ ~Truthy(normalizeText(ManualField(m, rowIndex, "name")))
       => resolveName(row, rowIndex, m)
            = FirstUsableName(row, ScanOrder(m.nameField, m.nameFallbackFields))
  /\ NumberOrZero(ManualField(m, rowIndex, "costPrice")) <= 0
       => resolveCost(row, rowIndex, m)
            = FirstUsablePrice(row, ScanOrder(m.costField, m.costFallbackFields))
  /\ (NumberOrZero(ManualField(m, rowIndex, "srpPrice")) <= 0 /\ Truthy(m.srpField))
       => resolveSrp(row, rowIndex, m)
            = FirstUsablePrice(row, ScanOrder(m.srpField, m.srpFallbackFields))

\* C23: with no usable manual override, each resolver (resolveSrp with a
\* srpField set) returns the value of the first usable cell among the primary
\* field and then the fallback fields in declared order, or empty string / 0
\* when none is usable; a name cell is usable when its trimmed text is
\* non-empty and no placeholder token, a price cell when the Price Normalizer
\* gives a value > 0; an unusable earlier column never blocks a later one.
C23_FirstUsableWins ==
  \A i \in 1..Len(data) : ScansInOrder(data[i], i - 1, mapping)

----------------------------------------------------------------------------
(* Claims on the reasons of the analysis *)

MissingReasons ==
  { "Missing Product Name and Cost Price", "Missing Product Name",
    "Missing Cost Price" }

\* no resolved entry of rows, and no resolved entry of the full retag list,
\* carries a reason, and "Missing Cost Price" stands only where the cost is
\* not > 0
ReasonsOnlyUnresolved(analysis, listed) ==
  /\ \A i \in 1..Len(analysis.rows) :
       /\ analysis.rows[i].isResolved => analysis.rows[i].reason \notin MissingReasons
       /\ analysis.rows[i].reason = "Missing Cost Price"
            => ~(analysis.rows[i].currentCost > 0)
  /\ \A j \in 1..Len(listed) :
       (listed[j].hasName /\ listed[j].hasCost) => listed[j].reason \notin MissingReasons

\* C24: the analyzer gives a reason only to unresolved rows: in its output no
\* row with isResolved = true carries a "Missing ..." reason, and the reason
\* "Missing Cost Price" appears only on rows whose resolved cost is not > 0.
C24_ReasonOnlyUnresolved ==
  pc \in {"mapping", "confirmed"} =>
    ReasonsOnlyUnresolved(importAnalysis(data, mapping),
                          rowsForRetag(data, mapping, FALSE))

----------------------------------------------------------------------------
(* Claims on the frame of a manual override *)

RetagFields == {"name", "costPrice", "srpPrice"}

\* the override table new differs from old at most in one field of row i
OneFieldOfOneRow(old, new, i, field) ==
  /\ DOMAIN new = DOMAIN old \cup {i}
  /\ \A j \in DOMAIN old \ {i} : new[j] = old[j]
  /\ \A f \in RetagFields \ {field} :
       new[i][f] = (IF i \in DOMAIN old THEN old[i][f] ELSE Undefined)

\* the rows other than row i resolve alike under both mappings
OtherRowsResolveAlike(d, old, new, i) ==
  \A j \in 0..(Len(d) - 1) :
    j # i =>
      /\ resolveName(d[j + 1], j, new) = resolveName(d[j + 1], j, old)
      /\ resolveCost(d[j + 1], j, new) = resolveCost(d[j + 1], j, old)
      /\ resolveSrp(d[j + 1], j, new) = resolveSrp(d[j + 1], j, old)

\* C25: a manual override is per row and per field: a step that changes the
\* override table (updateManualRetag(i, partial), partial naming one field)
\* changes only that field of row i's record; the other fields of the record,
\* the records of all other rows, every other mapping field and the batch are
\* unchanged, and the resolved name, cost and SRP of every row j # i are the
\* same before and after.
C25_OverrideFrame ==
  [][ mapping'.manualRetagByRow # mapping.manualRetagByRow =>
        /\ data' = data
        /\ [mapping' EXCEPT !.manualRetagByRow = mapping.manualRetagByRow] = mapping
        /\ \E i \in 0..(Len(data) - 1) : \E field \in RetagFields :
             /\ OneFieldOfOneRow(mapping.manualRetagByRow, mapping'.manualRetagByRow,
                                 i, field)
             /\ OtherRowsResolveAlike(data, mapping, mapping', i) ]_vars

\* a row with two fields overridden one after the other, next to a row
\* without overrides that resolves from its columns
C25_Witness ==
  /\ pc = "mapping"
  /\ Len(data) >= 2
  /\ \E i \in DOMAIN mapping.manualRetagByRow :
       /\ mapping.manualRetagByRow[i].name # Undefined
       /\ mapping.manualRetagByRow[i].costPrice # Undefined
  /\ \E j \in 0..(Len(data) - 1) :
       /\ j \notin DOMAIN mapping.manualRetagByRow
       /\ Truthy(resolveName(data[j + 1], j, mapping))

----------------------------------------------------------------------------
(* Claims on the positional overlap and the symmetry of the Scorer *)

\* the number of places from i on, within both headers, at which the
\* lower-cased characters are equal
RECURSIVE MatchesFrom(_, _, _)
MatchesFrom(a, b, i) ==
  IF i > Len(a) \/ i > Len(b) THEN 0
  ELSE (IF toLowerChar(a[i]) = toLowerChar(b[i]) THEN 1 ELSE 0)
         + MatchesFrom(a, b, i + 1)

LongerLength(a, b) == IF Len(a) >= Len(b) THEN Len(a) ELSE Len(b)

\* not equal ignoring case, no shared category, no anti-match
PlainPair(a, b) ==
  /\ toLowerCase(a) # toLowerCase(b)
  /\ ~ \E cat \in Categories : RegexTest(patterns(cat), a) /\ RegexTest(patterns(cat), b)
  /\ ~AntiMatchFires(a, b)

\* the Harmonizer puts the two keys of a one-row batch into one group
GroupedTogether(a, b) ==
  Len(HeaderGroups(<< <<Pair(a, Num(1)), Pair(b, Num(2))>> >>)) = 1

\* C26: for two headers that are not case-insensitively equal, share no
\* matched category and do not trigger the anti-match rule, similarityScore
\* equals (the number of positions below the shorter length at which the
\* lower-cased characters are equal) / (the longer length); the Harmonizer
\* groups such a pair exactly when 4 * matches >= 3 * longer length.
C26_PositionalOverlap ==
  (sPc = "scored" /\ PlainPair(sA, sB)) =>
    /\ sOut.den > 0
    /\ sOut.num * LongerLength(sA, sB) = MatchesFrom(sA, sB, 1) * sOut.den
    /\ GroupedTogether(sA, sB)
         <=> (4 * MatchesFrom(sA, sB, 1) >= 3 * LongerLength(sA, sB))

\* "Kode" against "Kodo": 3 of 4 positions, exactly the threshold, grouped
C26_Witness ==
  /\ sPc = "scored"
  /\ sA = H_Kode /\ sB = H_Kodo
  /\ PlainPair(sA, sB)
  /\ sOut = Score(3, 4)
  /\ GroupedTogether(sA, sB)

\* "Harga" against "Warna": 3 of 5 positions, not grouped
C26_WitnessBelow ==
  /\ sPc = "scored"
  /\ sA = H_Harga /\ sB = H_Warna
  /\ PlainPair(sA, sB)
  /\ sOut = Score(3, 5)
  /\ ~GroupedTogether(sA, sB)

\* headers of different lengths: "Desc" against "Net", 1 of 4 positions
C26_WitnessLengths ==
  /\ sPc = "scored"
  /\ sA = H_Desc /\ sB = H_Net
  /\ PlainPair(sA, sB)
  /\ sOut = Score(1, 4)

\* C27: similarityScore is commutative: score(a, b) = score(b, a) for every
\* pair of headers, so whether two keys are grouped does not depend on which
\* of them is the canonical key.
C27_ScoreCommutative ==
  sPc = "scored" =>
    /\ ScoreEq(sOut, similarityScore(sB, sA))
    /\ AtLeastThreshold(sOut) <=> AtLeastThreshold(similarityScore(sB, sA))
    /\ sA # sB => (GroupedTogether(sA, sB) <=> GroupedTogether(sB, sA))

\* a header of the srp category only scored against one of the cost category
\* only: the anti-match rule fires through its second alternative
C27_Witness ==
  /\ sPc = "scored"
  /\ IsSrpHeader(sA) /\ ~IsCostHeader(sA)
  /\ IsCostHeader(sB) /\ ~IsSrpHeader(sB)
  /\ sOut = Score(1, 5)
  /\ ~GroupedTogether(sA, sB)

\* headers of different lengths scored by positional overlap
C27_WitnessOverlap ==
  /\ sPc = "scored"
  /\ PlainPair(sA, sB)
  /\ Len(sA) < Len(sB)
  /\ sOut.num > 0

----------------------------------------------------------------------------
(* Claims on adding a fallback field *)

\* the list grew by one field
Grown(old, new) == Len(new) = Len(old) + 1

\* a field was added to one of the three fallback lists
FallbackAdded(old, new) ==
  \/ Grown(old.nameFallbackFields, new.nameFallbackFields)
  \/ Grown(old.costFallbackFields, new.costFallbackFields)
  \/ Grown(old.srpFallbackFields, new.srpFallbackFields)

\* the fields already listed keep their places
KeptInFront(old, new) == SubSeq(new, 1, Len(old)) = old

\* a usable value stays what it was
NameKept(before, after) == Truthy(before) => after = before
PriceKept(before, after) == before > 0 => after = before

ValuesKept(d, old, new) ==
  \A i \in 1..Len(d) :
    /\ NameKept(resolveName(d[i], i - 1, old), resolveName(d[i], i - 1, new))
    /\ PriceKept(resolveCost(d[i], i - 1, old), resolveCost(d[i], i - 1, new))
    /\ PriceKept(resolveSrp(d[i], i - 1, old), resolveSrp(d[i], i - 1, new))

ReadinessKept(before, after) ==
  /\ \A i \in 1..Len(before.rows) :
       before.rows[i].isResolved => after.rows[i].isResolved
  /\ after.ready >= before.ready

\* C28: adding a fallback field is monotone: after a step in which
\* toggleFallbackField(type, field, true) appends a field to a fallback list,
\* every row whose target already resolved to a usable value resolves to the
\* same value, every row that was resolved stays resolved, and the ready
\* count does not decrease.
C28_FallbackMonotone ==
  [][ FallbackAdded(mapping, mapping') =>
        /\ KeptInFront(mapping.nameFallbackFields, mapping'.nameFallbackFields)
        /\ KeptInFront(mapping.costFallbackFields, mapping'.costFallbackFields)
        /\ KeptInFront(mapping.srpFallbackFields, mapping'.srpFallbackFields)
        /\ ValuesKept(data, mapping, mapping')
        /\ ReadinessKept(importAnalysis(data, mapping),
                         importAnalysis(data, mapping')) ]_vars

\* the mapping without its fallback fields
WithoutFallbacks(m) ==
  [m EXCEPT !.nameFallbackFields = <<>>, !.costFallbackFields = <<>>,
            !.srpFallbackFields = <<>>]

\* two fallback fields were added one after the other; with them every row
\* is ready, without them none
C28_Witness ==
  /\ pc = "mapping"
  /\ Len(data) = 2
  /\ Len(mapping.nameFallbackFields) + Len(mapping.costFallbackFields) = 2
  /\ importAnalysis(data, mapping).ready = 2
  /\ importAnalysis(data, WithoutFallbacks(mapping)).ready = 0

\* a second fallback field was added behind one that already resolves a row
C28_WitnessSecond ==
  /\ pc = "mapping"
  /\ Len(mapping.nameFallbackFields) = 2
  /\ \E i \in 1..Len(data) :
       /\ ~UsableText(data[i], mapping.nameField)
       /\ UsableText(data[i], mapping.nameFallbackFields[1])
       /\ UsableText(data[i], mapping.nameFallbackFields[2])
       /\ normalizeText(Cell(data[i], mapping.nameFallbackFields[1]))
            # normalizeText(Cell(data[i], mapping.nameFallbackFields[2]))

----------------------------------------------------------------------------
(* Claims on the auto-guess *)

\* C29: the auto-guess run when a batch is loaded never sets costField and
\* srpField to the same header key.
C29_GuessKeepsCostAndSrpApart ==
  (pc = "mapping" /\ edits = 0) =>
    ~(Truthy(mapping.costField) /\ mapping.costField = mapping.srpField)

----------------------------------------------------------------------------
(* The write loop of handleMappingConfirm (App.tsx): the import-ready items *)
(* are numbered 1..iTotal in the order of incomingItems; iExisting holds    *)
(* the items whose name is a key of existingProductMap.                     *)

\* Firestore limit is 500
MAX_BATCH_SIZE == 450

\* the numbers of items tried: few, and those around a multiple of the batch
\* size
ItemCounts ==
  { n \in 0..MaxItems :
      n <= 2 \/ (n + 1) % MAX_BATCH_SIZE <= 2 \/ n = MaxItems }

\* existingProductMap holds no incoming name, or the name of every other item
ExistingChoices == { {}, { n \in 1..MaxItems : n % 2 = 0 } }

ImportInit ==
  /\ iTotal \in ItemCounts
  /\ iExisting \in ExistingChoices
  /\ iNext = 1
  /\ operationCount = 0
  /\ batch = <<>>
  /\ committed = <<>>
  /\ iPc = "loop"

\* batch.update(ref, ...) for a known name, batch.set(ref, ...) for a new one
QueuedOperation(item, existing) ==
  [item |-> item, kind |-> IF item \in existing THEN "update" ELSE "set"]

\* mutant: the batch is committed once the count exceeds the limit
CommitDue_Late(count) == count > MAX_BATCH_SIZE

\* if (operationCount >= MAX_BATCH_SIZE)
CommitDue(count) == count >= MAX_BATCH_SIZE

\* one turn of for (const newItem of incomingItems): the operation is queued
\* and counted; at the limit the batch is committed and a new one started.
\* A commit that throws ends the loop in the catch block.
QueueItem ==
  /\ iPc = "loop"
  /\ iNext <= iTotal
  /\ iNext' = iNext + 1
  /\ IF CommitDue(operationCount + 1)
       THEN \/ /\ committed' = Append(committed,
                                      Append(batch, QueuedOperation(iNext, iExisting)))
               /\ batch' = <<>>
               /\ operationCount' = 0
               /\ iPc' = iPc
            \/ /\ batch' = Append(batch, QueuedOperation(iNext, iExisting))
               /\ operationCount' = operationCount + 1
               /\ iPc' = "failed"
               /\ UNCHANGED committed
       ELSE /\ batch' = Append(batch, QueuedOperation(iNext, iExisting))
            /\ operationCount' = operationCount + 1
            /\ UNCHANGED <<committed, iPc>>
  /\ UNCHANGED <<iTotal, iExisting>>

\* after the loop: if (operationCount > 0) await batch.commit()
FinalCommit ==
  /\ iPc = "loop"
  /\ iNext > iTotal
  /\ IF operationCount > 0
       THEN \/ /\ committed' = Append(committed, batch)
               /\ iPc' = "done"
            \/ /\ iPc' = "failed"
               /\ UNCHANGED committed
       ELSE /\ iPc' = "done"
            /\ UNCHANGED committed
  /\ UNCHANGED <<iTotal, iExisting, iNext, operationCount, batch>>

ImportNext ==
  \/ QueueItem /\ UNCHANGED <<priceVars, scoreVars, harmVars, sessionVars>>
  \/ FinalCommit /\ UNCHANGED <<priceVars, scoreVars, harmVars, sessionVars>>

InitImport == ImportInit /\ PriceIdle /\ ScoreIdle /\ HarmIdle /\ SessionIdle
SpecImport == InitImport /\ [][ImportNext]_vars

----------------------------------------------------------------------------
(* Claims on the write loop *)

\* the operations of the batches, one after the other
RECURSIVE Flattened(_)
Flattened(batches) ==
  IF batches = <<>> THEN <<>>
  ELSE Flattened(SubSeq(batches, 1, Len(batches) - 1)) \o batches[Len(batches)]

\* every item 1..total stands in the operations exactly once
EachItemOnce(operations, total) ==
  /\ Len(operations) = total
  /\ { operations[k].item : k \in 1..Len(operations) } = 1..total

\* C30: no write batch committed by handleMappingConfirm holds more than 450
\* operations, and when the import completes without error every
\* import-ready item is queued in exactly one committed batch (none lost,
\* none written twice), for any number of items.
C30_BatchesBounded ==
  /\ \A b \in 1..Len(committed) : Len(committed[b]) <= 450
  /\ iPc = "done" => EachItemOnce(Flattened(committed), iTotal)

\* an import of more than two full batches completed: two batches of 450
\* operations and a last one with the rest
C30_Witness ==
  /\ iPc = "done"
  /\ iTotal > 2 * 450
  /\ Len(committed) = 3
  /\ Len(committed[1]) = 450 /\ Len(committed[2]) = 450
  /\ Len(committed[3]) = iTotal - 900

\* an import of exactly one full batch completed with no batch left over
C30_WitnessExact ==
  /\ iPc = "done"
  /\ iTotal = 450
  /\ Len(committed) = 1 /\ batch = <<>>

====
